---- MODULE Spec2Model ----
(***************************************************************************)
(* State-machine model of the export and configuration objects of FESTIM:  *)
(*   XDMFExport        (src/festim/exports/xdmf.py)                        *)
(*   AdvectionTerm     (src/src/festim/advection.py)                       *)
(*   SurfaceQuantity   (src/festim/exports/surface_quantity.py)            *)
(*   TXTExport         (src/festim/exports/txt_export.py)                  *)
(*   derived quantities and run_post_processing                            *)
(*                     (src/FESTIM/post_processing.py)                     *)
(*   HydrogenTransportProblem                                              *)
(*                     (src/festim/hydrogen_transport_problem.py)          *)
(* Each object has its own specification (SpecXDMF, SpecAdv, SpecSQ,       *)
(* SpecTXT, SpecDQ, SpecPP, SpecHTP); the variables of the other objects   *)
(* stay at their initial value.                                            *)
(***************************************************************************)
EXTENDS Integers, Sequences, FiniteSets, TLC

VARIABLES
  xdmf,       \* the XDMFExport object
  xdmf_out,   \* what the XDMFFile writer of the export has received
  xdmf_call,  \* the last call made on the XDMFExport and how it ended
  adv,        \* the AdvectionTerm object
  adv_call,   \* the last call made on the AdvectionTerm and how it ended
  sq,         \* the SurfaceQuantity object
  sq_file,    \* the file system: the rows of each file SurfaceQuantity may name
  sq_call,    \* the last call made on the SurfaceQuantity and how it ended
  txt,        \* the TXTExport object
  txt_file,   \* the file system: the content of each file TXTExport may name
  txt_call,   \* the last call made on the TXTExport and how it ended
  dq,         \* a derived_quantities dict and the number of traps
  dq_call,    \* the last derived-quantities function called and its outcome
  pp,         \* the Simulation that run_post_processing works on
  pp_call,    \* the last call of run_post_processing and how it ended
  htp,        \* the HydrogenTransportProblem object
  htp_call    \* the last call made on the problem and how it ended

xvars == <<xdmf, xdmf_out, xdmf_call>>
avars == <<adv, adv_call>>
svars == <<sq, sq_file, sq_call>>
tvars == <<txt, txt_file, txt_call>>
dvars == <<dq, dq_call>>
pvars == <<pp, pp_call>>
hvars == <<htp, htp_call>>
vars == <<xvars, avars, svars, tvars, dvars, pvars, hvars>>

(***************************************************************************)
(* Bounds of the model.                                                    *)
(***************************************************************************)
\* number of calls made on one object
MaxCalls == 4
\* export times handed to XDMFExport.write are 0..MaxT
MaxT == 1

(***************************************************************************)
(* Python values.  A value is a record: its class, a payload (the text of  *)
(* a str, the name of a Species, the id of a subdomain) and, for           *)
(* containers, its elements.                                               *)
(***************************************************************************)
Val(t, n, e) == [type |-> t, name |-> n, elems |-> e]

NoneV == Val("NoneType", "", <<>>)
\* an attribute that was never assigned
Unset == Val("<unset>", "", <<>>)
StrV(s) == Val("str", s, <<>>)
IntV(s) == Val("int", s, <<>>)
FloatV(s) == Val("float", s, <<>>)
ListV(e) == Val("list", "", e)
SpeciesV(n) == Val("Species", n, <<>>)

\* repr(type(v)), as an f-string prints {type(v)}
TypeRepr(v) ==
  CASE v.type = "NoneType" -> "<class 'NoneType'>"
    [] v.type = "str" -> "<class 'str'>"
    [] v.type = "int" -> "<class 'int'>"
    [] v.type = "float" -> "<class 'float'>"
    [] v.type = "list" -> "<class 'list'>"
    [] v.type = "function" -> "<class 'function'>"
    [] v.type = "partial" -> "<class 'functools.partial'>"
    [] v.type = "Species" -> "<class 'festim.species.Species'>"
    [] v.type = "Function" -> "<class 'dolfinx.fem.function.Function'>"
    [] v.type = "Constant" -> "<class 'dolfinx.fem.function.Constant'>"
    [] v.type = "VolumeSubdomain" ->
         "<class 'festim.subdomain.volume_subdomain.VolumeSubdomain'>"
    [] v.type = "SurfaceSubdomain" ->
         "<class 'festim.subdomain.surface_subdomain.SurfaceSubdomain'>"
    [] v.type = "SurfaceSubdomain1D" ->
         "<class 'festim.subdomain.surface_subdomain_1d.SurfaceSubdomain1D'>"
    [] OTHER -> "<class '" \o v.type \o "'>"

\* exceptions; NoExc is a call that returned normally
Exc(t, m) == [type |-> t, msg |-> m]
NoExc == Exc("", "")

\* isinstance(v, festim.Species)
IsSpecies(v) == v.type = "Species"

\* every element of a sequence of values is a Species
AllSpecies(s) == \A i \in 1..Len(s) : IsSpecies(s[i])

\* the index of the first element of s that is not a Species (0: none)
FirstNonSpecies(s) ==
  IF AllSpecies(s) THEN 0
  ELSE CHOOSE i \in 1..Len(s) :
         /\ ~IsSpecies(s[i])
         /\ \A j \in 1..(i - 1) : IsSpecies(s[j])

(***************************************************************************)
(* File names.  TLC cannot take a string apart, so the names are drawn     *)
(* from a fixed set and str.endswith, os.path.dirname are tables over it.  *)
(***************************************************************************)
FileNames == {"out.xdmf", "out.txt", "out.csv", "results/out.txt",
              "results/out.csv", "out"}

\* str.endswith(suffix) over FileNames
EndsWith(s, suffix) ==
  CASE suffix = ".xdmf" -> s \in {"out.xdmf"}
    [] suffix = ".txt" -> s \in {"out.txt", "results/out.txt"}
    [] suffix = ".csv" -> s \in {"out.csv", "results/out.csv"}
    [] OTHER -> FALSE

\* os.path.dirname over FileNames
DirName(s) == IF s \in {"results/out.txt", "results/out.csv"} THEN "results" ELSE ""

(***************************************************************************)
(* XDMFExport                                                              *)
(***************************************************************************)
\* the object, before construction and when a constructor raised
NoXDMF == [exists |-> FALSE, filename |-> Unset, writer |-> 0,
           field |-> Unset, mesh_written |-> FALSE]

\* calls are numbered, so that two equal calls in a row are two steps
\* (args: the arguments of the call, in the order of the signature)
NoCall == [seq |-> 0, op |-> "", args |-> <<>>, t |-> -1, raised |-> NoExc]
Call(prev, op, args, t, raised) ==
  [seq |-> prev.seq + 1, op |-> op, args |-> args, t |-> t, raised |-> raised]

\* ExportBaseClass.__init__(filename, ext): the file name must be a str
\* ending with ext
BaseFilenameCheck(filename, ext) ==
  IF filename.type # "str" THEN Exc("TypeError", "filename must be of type str")
  ELSE IF ~EndsWith(filename.name, ext)
       THEN Exc("ValueError", "filename must end with " \o ext)
       ELSE NoExc

\* faulty variant: a single Species is stored as given, not wrapped in a list
FieldSetterNoWrap(value) ==
  IF value.type = "list" /\ ~AllSpecies(value.elems)
  THEN [raised |-> Exc("TypeError", "Each element in the list must be a species, got "
                        \o TypeRepr(value.elems[FirstNonSpecies(value.elems)]) \o "."),
        val |-> Unset]
  ELSE IF value.type = "list" \/ IsSpecies(value)
       THEN [raised |-> NoExc, val |-> value]
       ELSE [raised |-> Exc("TypeError",
                 "field must be of type festim.Species or a list of festim.Species, got "
                 \o TypeRepr(value) \o "."),
             val |-> Unset]

\* faulty variant: the elements of a list are not checked
FieldSetterNoElementCheck(value) ==
  IF value.type = "list" THEN [raised |-> NoExc, val |-> value]
  ELSE IF IsSpecies(value) THEN [raised |-> NoExc, val |-> ListV(<<value>>)]
       ELSE [raised |-> Exc("TypeError",
                 "field must be of type festim.Species or a list of festim.Species, got "
                 \o TypeRepr(value) \o "."),
             val |-> Unset]

\* XDMFExport.field setter: the exception raised and the value assigned to
\* _field (Unset: none)
FieldSetter(value) ==
  IF value.type = "list"
  THEN IF ~AllSpecies(value.elems)
       THEN [raised |-> Exc("TypeError", "Each element in the list must be a species, got "
                             \o TypeRepr(value.elems[FirstNonSpecies(value.elems)]) \o "."),
             val |-> Unset]
       ELSE [raised |-> NoExc, val |-> value]
  ELSE IF IsSpecies(value)
       THEN [raised |-> NoExc, val |-> ListV(<<value>>)]
       ELSE [raised |-> Exc("TypeError",
                 "field must be of type festim.Species or a list of festim.Species, got "
                 \o TypeRepr(value) \o "."),
             val |-> Unset]

\* what the writer receives
MeshEvent(species) == [kind |-> "mesh", of |-> species.name, t |-> -1]
FunctionEvent(species, t) == [kind |-> "function", of |-> species.name, t |-> t]

\* write_function(field.post_processing_solution, t) for each field, in order
FunctionEvents(fields, t) == [i \in 1..Len(fields) |-> FunctionEvent(fields[i], t)]

\* faulty variant: the mesh is written at every call
XDMFWriteMeshAlways(x, t) ==
  IF x.writer = 0
  THEN [raised |-> Exc("AttributeError", "'NoneType' object has no attribute 'write_mesh'"),
        out |-> <<>>, mesh_written |-> x.mesh_written]
  ELSE IF Len(x.field.elems) = 0
       THEN [raised |-> Exc("IndexError", "list index out of range"),
             out |-> <<>>, mesh_written |-> x.mesh_written]
       ELSE [raised |-> NoExc,
             out |-> <<MeshEvent(x.field.elems[1])>> \o FunctionEvents(x.field.elems, t),
             mesh_written |-> TRUE]

\* XDMFExport.write(t) on object x: the exception raised, what is written
\* to the writer, and _mesh_written afterwards
XDMFWriteResult(x, t) ==
  IF ~x.mesh_written
  THEN IF x.writer = 0
       THEN [raised |-> Exc("AttributeError",
                            "'NoneType' object has no attribute 'write_mesh'"),
             out |-> <<>>, mesh_written |-> FALSE]
       ELSE IF Len(x.field.elems) = 0
            THEN [raised |-> Exc("IndexError", "list index out of range"),
                  out |-> <<>>, mesh_written |-> FALSE]
            ELSE [raised |-> NoExc,
                  out |-> <<MeshEvent(x.field.elems[1])>>
                          \o FunctionEvents(x.field.elems, t),
                  mesh_written |-> TRUE]
  ELSE IF Len(x.field.elems) > 0 /\ x.writer = 0
       THEN [raised |-> Exc("AttributeError",
                            "'NoneType' object has no attribute 'write_function'"),
             out |-> <<>>, mesh_written |-> TRUE]
       ELSE [raised |-> NoExc, out |-> FunctionEvents(x.field.elems, t),
             mesh_written |-> TRUE]

\* the values handed to the constructor and to the field setter
XDMFFieldInputs ==
  { SpeciesV("H"), SpeciesV("D"),
    ListV(<<>>), ListV(<<SpeciesV("H")>>),
    ListV(<<SpeciesV("H"), SpeciesV("D")>>),
    ListV(<<SpeciesV("D"), SpeciesV("H")>>),
    IntV("1"), StrV("H"),
    ListV(<<StrV("H"), IntV("2")>>),
    ListV(<<SpeciesV("H"), IntV("1")>>) }

XDMFFilenameInputs == { StrV("out.xdmf"), StrV("out.txt"), IntV("1") }

\* XDMFExport(filename, field); the model follows one export object, so the
\* constructor is called until it returns one
XDMFConstruct(filename, field) ==
  /\ ~xdmf.exists
  /\ xdmf_call.seq < MaxCalls
  /\ LET base == BaseFilenameCheck(filename, ".xdmf")
         set == FieldSetter(field)
         raised == IF base # NoExc THEN base ELSE set.raised
     IN /\ xdmf' = IF raised # NoExc THEN NoXDMF
                   ELSE [exists |-> TRUE, filename |-> filename, writer |-> 0,
                         field |-> set.val, mesh_written |-> FALSE]
        /\ xdmf_call' = Call(xdmf_call, "init", <<filename, field>>, -1, raised)
  /\ UNCHANGED <<xdmf_out, avars, svars, tvars, dvars, pvars, hvars>>

\* my_export.field = value
XDMFSetField(value) ==
  /\ xdmf.exists
  /\ xdmf_call.seq < MaxCalls
  /\ LET set == FieldSetter(value)
     IN /\ xdmf' = IF set.raised # NoExc THEN xdmf
                   ELSE [xdmf EXCEPT !.field = set.val]
        /\ xdmf_call' = Call(xdmf_call, "set_field", <<value>>, -1, set.raised)
  /\ UNCHANGED <<xdmf_out, avars, svars, tvars, dvars, pvars, hvars>>

\* my_export.define_writer(comm): a new XDMFFile opened with mode "w"
XDMFDefineWriter ==
  /\ xdmf.exists
  /\ xdmf_call.seq < MaxCalls
  /\ xdmf' = [xdmf EXCEPT !.writer = xdmf.writer + 1]
  /\ xdmf_out' = <<>>
  /\ xdmf_call' = Call(xdmf_call, "define_writer", <<>>, -1, NoExc)
  /\ UNCHANGED <<avars, svars, tvars, dvars, pvars, hvars>>

\* my_export.write(t)
XDMFWrite(t) ==
  /\ xdmf.exists
  /\ xdmf_call.seq < MaxCalls
  /\ LET r == XDMFWriteResult(xdmf, t)
     IN /\ xdmf' = [xdmf EXCEPT !.mesh_written = r.mesh_written]
        /\ xdmf_out' = xdmf_out \o r.out
        /\ xdmf_call' = Call(xdmf_call, "write", <<>>, t, r.raised)
  /\ UNCHANGED <<avars, svars, tvars, dvars, pvars, hvars>>

XDMFInit ==
  /\ xdmf = NoXDMF
  /\ xdmf_out = <<>>
  /\ xdmf_call = NoCall

XDMFNext ==
  \/ \E fn \in XDMFFilenameInputs, f \in XDMFFieldInputs : XDMFConstruct(fn, f)
  \/ \E f \in XDMFFieldInputs : XDMFSetField(f)
  \/ XDMFDefineWriter
  \/ \E t \in 0..MaxT : XDMFWrite(t)

(***************************************************************************)
(* AdvectionTerm                                                           *)
(***************************************************************************)
\* festim.VolumeSubdomain(id), festim.SurfaceSubdomain(id)
VolumeSubdomainV(id) == Val("VolumeSubdomain", id, <<>>)
SurfaceSubdomainV(id) == Val("SurfaceSubdomain", id, <<>>)
\* a dolfinx fem.Function and a fem.Constant
FunctionV(n) == Val("Function", n, <<>>)
ConstantV(n) == Val("Constant", n, <<>>)
\* a Python function; elems is its __code__.co_varnames
PyFunctionV(varnames) == Val("function", "", varnames)
\* a callable that has no __code__ (a functools.partial)
PartialV == Val("partial", "", <<>>)
\* festim.helpers.VelocityField(value)
VelocityFieldV(value) == Val("VelocityField", "", <<value>>)

\* type(v).__name__
TypeName(v) == v.type

\* callable(v)
IsCallable(v) == v.type \in {"function", "partial"}

\* len of the strings handed to the model
StrLen(s) ==
  CASE s = "" -> 0
    [] s = "H" -> 1
    [] s = "t" -> 1
    [] s = "coucou" -> 6
    [] OTHER -> 1

\* iter(v) succeeds: lists and strings
IsIterable(v) == v.type \in {"list", "str"}

\* the elements a for loop over v visits; the characters of a str are str
IterElems(v) ==
  IF v.type = "list" THEN v.elems
  ELSE IF v.type = "str" THEN [i \in 1..StrLen(v.name) |-> StrV("<char>")]
       ELSE <<>>

\* AdvectionTerm.velocity setter: the exception raised and the value
\* assigned to _velocity (Unset: none)
VelocitySetter(value) ==
  IF value.type = "NoneType"
  THEN [raised |-> NoExc, val |-> VelocityFieldV(value)]
  ELSE IF value.type = "Function"
       THEN [raised |-> NoExc, val |-> VelocityFieldV(value)]
       ELSE IF IsCallable(value)
            THEN IF value.type = "partial"
                 THEN [raised |-> Exc("AttributeError", "'functools.partial' object "
                                      \o "has no attribute '__code__'"),
                       val |-> Unset]
                 ELSE IF value.elems = <<StrV("t")>>
                      THEN [raised |-> NoExc, val |-> VelocityFieldV(value)]
                      ELSE [raised |-> Exc("TypeError",
                                "Advection field can only be a function of time (t)"),
                            val |-> Unset]
            ELSE [raised |-> Exc("TypeError",
                      "velocity must be a fem.Expression, ufl.core.expr.Expr, fem.Function, "
                      \o "or callable not " \o TypeRepr(value)),
                  val |-> Unset]

\* faulty variant: any subdomain is accepted, whatever its kind
SubdomainSetterAnySubdomain(value) ==
  IF value.type \in {"NoneType", "VolumeSubdomain", "SurfaceSubdomain"}
  THEN [raised |-> NoExc, val |-> value]
  ELSE [raised |-> Exc("TypeError",
            "Subdomain must be a festim.Subdomain object, not " \o TypeRepr(value)),
        val |-> Unset]

\* AdvectionTerm.subdomain setter
SubdomainSetter(value) ==
  IF value.type = "NoneType"
  THEN [raised |-> NoExc, val |-> value]
  ELSE IF value.type = "VolumeSubdomain"
       THEN [raised |-> NoExc, val |-> value]
       ELSE [raised |-> Exc("TypeError",
                 "Subdomain must be a festim.Subdomain object, not " \o TypeRepr(value)),
             val |-> Unset]

\* AdvectionTerm.species setter: the loop visits the elements of value (a
\* value that is not iterable raises there), and value is stored as given
SpeciesSetter(value) ==
  IF ~IsIterable(value)
  THEN [raised |-> Exc("TypeError", "'" \o TypeName(value) \o "' object is not iterable"),
        val |-> Unset]
  ELSE IF ~AllSpecies(IterElems(value))
       THEN [raised |-> Exc("TypeError",
                 "elements of species must be of type festim.Species not "
                 \o TypeRepr(IterElems(value)[FirstNonSpecies(IterElems(value))])),
             val |-> Unset]
       ELSE [raised |-> NoExc, val |-> value]

NoAdv == [exists |-> FALSE, velocity |-> Unset, subdomain |-> Unset, species |-> Unset]

AdvVelocityInputs ==
  { NoneV, FunctionV("u"), PyFunctionV(<<StrV("t")>>), PyFunctionV(<<StrV("x")>>),
    PartialV, StrV("coucou"), FloatV("1.0"), IntV("1"), ConstantV("1.0") }

AdvSubdomainInputs ==
  { NoneV, VolumeSubdomainV("1"), StrV("coucou"), FloatV("1.0"), IntV("1"),
    SurfaceSubdomainV("1") }

AdvSpeciesInputs ==
  { SpeciesV("H"), ListV(<<SpeciesV("D"), SpeciesV("test")>>), ListV(<<>>),
    ListV(<<SpeciesV("H"), IntV("1")>>),
    StrV("coucou"), StrV(""), FloatV("1.0"), IntV("1"), SurfaceSubdomainV("1") }

\* AdvectionTerm(velocity, subdomain, species): the three setters in turn, the
\* first exception ends the call; the model follows one object, so the
\* constructor is called until it returns one
AdvConstruct(velocity, subdomain, species) ==
  /\ ~adv.exists
  /\ adv_call.seq < MaxCalls
  /\ LET v == VelocitySetter(velocity)
         d == SubdomainSetter(subdomain)
         s == SpeciesSetter(species)
         raised == IF v.raised # NoExc THEN v.raised
                   ELSE IF d.raised # NoExc THEN d.raised
                        ELSE s.raised
     IN /\ adv' = IF raised # NoExc THEN NoAdv
                  ELSE [exists |-> TRUE, velocity |-> v.val, subdomain |-> d.val,
                        species |-> s.val]
        /\ adv_call' = Call(adv_call, "init", <<velocity, subdomain, species>>, -1, raised)
  /\ UNCHANGED <<xvars, svars, tvars, dvars, pvars, hvars>>

\* my_term.velocity = value
AdvSetVelocity(value) ==
  /\ adv.exists
  /\ adv_call.seq < MaxCalls
  /\ LET r == VelocitySetter(value)
     IN /\ adv' = IF r.raised # NoExc THEN adv ELSE [adv EXCEPT !.velocity = r.val]
        /\ adv_call' = Call(adv_call, "set_velocity", <<value>>, -1, r.raised)
  /\ UNCHANGED <<xvars, svars, tvars, dvars, pvars, hvars>>

\* my_term.subdomain = value
AdvSetSubdomain(value) ==
  /\ adv.exists
  /\ adv_call.seq < MaxCalls
  /\ LET r == SubdomainSetter(value)
     IN /\ adv' = IF r.raised # NoExc THEN adv ELSE [adv EXCEPT !.subdomain = r.val]
        /\ adv_call' = Call(adv_call, "set_subdomain", <<value>>, -1, r.raised)
  /\ UNCHANGED <<xvars, svars, tvars, dvars, pvars, hvars>>

\* my_term.species = value
AdvSetSpecies(value) ==
  /\ adv.exists
  /\ adv_call.seq < MaxCalls
  /\ LET r == SpeciesSetter(value)
     IN /\ adv' = IF r.raised # NoExc THEN adv ELSE [adv EXCEPT !.species = r.val]
        /\ adv_call' = Call(adv_call, "set_species", <<value>>, -1, r.raised)
  /\ UNCHANGED <<xvars, svars, tvars, dvars, pvars, hvars>>

AdvInit ==
  /\ adv = NoAdv
  /\ adv_call = NoCall

AdvNext ==
  \/ \E v \in AdvVelocityInputs, d \in AdvSubdomainInputs, s \in AdvSpeciesInputs :
       AdvConstruct(v, d, s)
  \/ \E v \in AdvVelocityInputs : AdvSetVelocity(v)
  \/ \E d \in AdvSubdomainInputs : AdvSetSubdomain(d)
  \/ \E s \in AdvSpeciesInputs : AdvSetSpecies(s)

(***************************************************************************)
(* SurfaceQuantity                                                         *)
(***************************************************************************)
\* festim.SurfaceSubdomain1D(id)
SurfaceSubdomain1DV(id) == Val("SurfaceSubdomain1D", id, <<>>)
BoolV(b) == Val("bool", b, <<>>)

\* a cell of a csv row: a text or a number
TextCell(s) == [s |-> s, n |-> -1]
NumCell(n) == [s |-> "", n |-> n]

\* the files SurfaceQuantity may name, and the directory of the second
SQFiles == {"out.csv", "results/out.csv"}
NoFile == [exists |-> FALSE, rows |-> <<>>]
\* a file that is there before the program runs
OldFile == [exists |-> TRUE, rows |-> << <<TextCell("old"), TextCell("old")>> >>]

\* SurfaceQuantity.field setter
SQFieldSetter(value) ==
  IF value.type \notin {"Species", "str"}
  THEN [raised |-> Exc("TypeError", "field must be of type festim.Species"), val |-> Unset]
  ELSE [raised |-> NoExc, val |-> value]

\* SurfaceQuantity.surface setter
SQSurfaceSetter(value) ==
  IF value.type \notin {"int", "SurfaceSubdomain1D"} \/ value.type = "bool"
  THEN [raised |-> Exc("TypeError", "surface should be an int or F.SurfaceSubdomain1D"),
        val |-> Unset]
  ELSE [raised |-> NoExc, val |-> value]

\* SurfaceQuantity.filename setter
SQFilenameSetter(value) ==
  IF value.type = "NoneType" THEN [raised |-> NoExc, val |-> value]
  ELSE IF value.type # "str"
       THEN [raised |-> Exc("TypeError", "filename must be of type str"), val |-> Unset]
       ELSE IF ~EndsWith(value.name, ".csv") /\ ~EndsWith(value.name, ".txt")
            THEN [raised |-> Exc("ValueError", "filename must end with .csv or .txt"),
                  val |-> Unset]
            ELSE [raised |-> NoExc, val |-> value]

NoSQ == [exists |-> FALSE, field |-> Unset, surface |-> Unset, filename |-> Unset,
         title |-> NoneV, first_time_export |-> TRUE, value |-> Unset]

\* open(filename, mode) fails when the directory of the file is missing
SQCanOpen(fs, name) == DirName(name) = "" \/ fs.dir

\* "Flux surface {}: {}".format(self.surface.id, self.field.name)
SQTitle(s) == StrV("Flux surface " \o s.surface.name \o ": " \o s.field.name)

\* the object after the title step of write (lines 73-76)
SQWithTitle(s) == IF s.title = NoneV THEN [s EXCEPT !.title = SQTitle(s)] ELSE s

\* the rows of the file after the header step of write (lines 78-83): mode
\* "w+" creates the file or empties it
SQHeaderRows(s) == << <<TextCell("t(s)"), TextCell(s.title.name)>> >>

\* the rows of the file when write reaches line 84
SQRowsAfterHeader(s, file) ==
  IF s.first_time_export THEN SQHeaderRows(s) ELSE file.rows

\* SurfaceQuantity.write(t) on object s with file system fs: the exception
\* raised, the object and the file system afterwards
SQWriteResult(s, fs, t) ==
  IF s.title = NoneV /\ s.surface.type = "int"
  THEN [raised |-> Exc("AttributeError", "'int' object has no attribute 'id'"),
        sq |-> s, fs |-> fs]
  ELSE IF s.title = NoneV /\ s.field.type = "str"
  THEN [raised |-> Exc("AttributeError", "'str' object has no attribute 'name'"),
        sq |-> s, fs |-> fs]
  ELSE LET s1 == SQWithTitle(s)
       IN IF s1.filename = NoneV
          THEN [raised |-> NoExc, sq |-> s1, fs |-> fs]
          ELSE LET name == s1.filename.name
               IN IF ~SQCanOpen(fs, name)
                  THEN [raised |-> Exc("FileNotFoundError",
                                       "[Errno 2] No such file or directory: '"
                                       \o name \o "'"),
                        sq |-> s1, fs |-> fs]
                  ELSE LET rows == SQRowsAfterHeader(s1, fs.files[name])
                           s2 == [s1 EXCEPT !.first_time_export = FALSE]
                       IN IF s2.value = Unset
                          THEN [raised |-> Exc("AttributeError",
                                    "'SurfaceQuantity' object has no attribute 'value'"),
                                sq |-> s2,
                                fs |-> [fs EXCEPT !.files[name] =
                                          [exists |-> TRUE, rows |-> rows]]]
                          ELSE [raised |-> NoExc, sq |-> s2,
                                fs |-> [fs EXCEPT !.files[name] =
                                          [exists |-> TRUE,
                                           rows |-> Append(rows,
                                              <<NumCell(t), NumCell(s2.value.n)>>)]]]

SQFieldInputs == { SpeciesV("H"), SpeciesV("D"), StrV("H"), IntV("1") }
SQSurfaceInputs == { SurfaceSubdomain1DV("1"), IntV("1"), BoolV("True"), StrV("H") }
SQFilenameInputs ==
  { NoneV, StrV("out.csv"), StrV("results/out.csv"), StrV("out"), IntV("1") }
\* the values a quantity takes
SQValues == {0, 1}

\* SurfaceQuantity(field, surface, filename); the model follows one object,
\* so the constructor is called until it returns one
SQConstruct(field, surface, filename) ==
  /\ ~sq.exists
  /\ sq_call.seq < MaxCalls
  /\ LET f == SQFieldSetter(field)
         u == SQSurfaceSetter(surface)
         n == SQFilenameSetter(filename)
         raised == IF f.raised # NoExc THEN f.raised
                   ELSE IF u.raised # NoExc THEN u.raised
                        ELSE n.raised
     IN /\ sq' = IF raised # NoExc THEN NoSQ
                 ELSE [exists |-> TRUE, field |-> f.val, surface |-> u.val,
                       filename |-> n.val, title |-> NoneV,
                       first_time_export |-> TRUE, value |-> Unset]
        /\ sq_call' = Call(sq_call, "init", <<field, surface, filename>>, -1, raised)
  /\ UNCHANGED <<sq_file, xvars, avars, tvars, dvars, pvars, hvars>>

\* my_quantity.field = value
SQSetField(value) ==
  /\ sq.exists
  /\ sq_call.seq < MaxCalls
  /\ LET r == SQFieldSetter(value)
     IN /\ sq' = IF r.raised # NoExc THEN sq ELSE [sq EXCEPT !.field = r.val]
        /\ sq_call' = Call(sq_call, "set_field", <<value>>, -1, r.raised)
  /\ UNCHANGED <<sq_file, xvars, avars, tvars, dvars, pvars, hvars>>

\* my_quantity.surface = value
SQSetSurface(value) ==
  /\ sq.exists
  /\ sq_call.seq < MaxCalls
  /\ LET r == SQSurfaceSetter(value)
     IN /\ sq' = IF r.raised # NoExc THEN sq ELSE [sq EXCEPT !.surface = r.val]
        /\ sq_call' = Call(sq_call, "set_surface", <<value>>, -1, r.raised)
  /\ UNCHANGED <<sq_file, xvars, avars, tvars, dvars, pvars, hvars>>

\* my_quantity.filename = value
SQSetFilename(value) ==
  /\ sq.exists
  /\ sq_call.seq < MaxCalls
  /\ LET r == SQFilenameSetter(value)
     IN /\ sq' = IF r.raised # NoExc THEN sq ELSE [sq EXCEPT !.filename = r.val]
        /\ sq_call' = Call(sq_call, "set_filename", <<value>>, -1, r.raised)
  /\ UNCHANGED <<sq_file, xvars, avars, tvars, dvars, pvars, hvars>>

\* my_quantity.value = v, as the compute step of the run does before write
SQAssignValue(v) ==
  /\ sq.exists
  /\ sq_call.seq < MaxCalls
  /\ sq' = [sq EXCEPT !.value = NumCell(v)]
  /\ sq_call' = Call(sq_call, "set_value", <<>>, -1, NoExc)
  /\ UNCHANGED <<sq_file, xvars, avars, tvars, dvars, pvars, hvars>>

\* my_quantity.write(t)
SQWrite(t) ==
  /\ sq.exists
  /\ sq_call.seq < MaxCalls
  /\ LET r == SQWriteResult(sq, sq_file, t)
     IN /\ sq' = r.sq
        /\ sq_file' = r.fs
        /\ sq_call' = Call(sq_call, "write", <<>>, t, r.raised)
  /\ UNCHANGED <<xvars, avars, tvars, dvars, pvars, hvars>>

\* the file system when no SurfaceQuantity is looked at
SQNoFiles == [dir |-> FALSE, files |-> [f \in SQFiles |-> NoFile]]

SQIdle == sq = NoSQ /\ sq_file = SQNoFiles /\ sq_call = NoCall

\* no object yet; any of the files may be there already
SQInit ==
  /\ sq = NoSQ
  /\ sq_call = NoCall
  /\ \E d \in BOOLEAN, a \in {NoFile, OldFile}, b \in {NoFile, OldFile} :
       /\ b.exists => d
       /\ sq_file = [dir |-> d,
                     files |-> [f \in SQFiles |-> IF f = "out.csv" THEN a ELSE b]]

SQNext ==
  \/ \E f \in SQFieldInputs, u \in SQSurfaceInputs, n \in SQFilenameInputs :
       SQConstruct(f, u, n)
  \/ \E f \in SQFieldInputs : SQSetField(f)
  \/ \E u \in SQSurfaceInputs : SQSetSurface(u)
  \/ \E n \in SQFilenameInputs : SQSetFilename(n)
  \/ \E v \in SQValues : SQAssignValue(v)
  \/ \E t \in 0..MaxT : SQWrite(t)

(***************************************************************************)
(* TXTExport                                                               *)
(***************************************************************************)
Abs(x) == IF x < 0 THEN -x ELSE x

\* 1 / rtol of np.isclose (rtol defaults to 1e-5)
RTolInverse == 100000

\* np.isclose(a, b, atol=0): |a - b| <= rtol * |b|; the times are whole
\* numbers, for which this is |a - b| <= |b| div (1 / rtol)
IsClose(a, b) == Abs(a - b) <= Abs(b) \div RTolInverse

\* final_time of a steady-state run (None)
FinalNone == -1

\* the times argument: None, or a list of times
TimesNone == [none |-> TRUE, list |-> <<>>]
TimesList(l) == [none |-> FALSE, list |-> l]

\* the sequence s without its element at index i
RemoveAt(s, i) == [k \in 1..(Len(s) - 1) |-> IF k < i THEN s[k] ELSE s[k + 1]]

\* the index of the first least element of a sequence that is not empty
ArgMin(s) == CHOOSE i \in 1..Len(s) :
               /\ \A j \in 1..Len(s) : s[i] <= s[j]
               /\ \A j \in 1..(i - 1) : s[j] > s[i]

RECURSIVE Sorted(_)
\* sorted(s)
Sorted(s) == IF Len(s) = 0 THEN <<>>
             ELSE <<s[ArgMin(s)]>> \o Sorted(RemoveAt(s, ArgMin(s)))

\* np.argsort(x_column, axis=0)[:, 0]: the orders of the indices of x that
\* put its values in ascending order.  The default kind of sort is not
\* stable, so indices of equal values may come in any order, and the
\* result is any one member of this set
ArgSort(x) ==
  {p \in [1..Len(x) -> 1..Len(x)] :
     /\ \A a, b \in 1..Len(x) : a # b => p[a] # p[b]
     /\ \A k \in 1..(Len(x) - 1) : x[p[k]] <= x[p[k + 1]]}

\* the values of a sequence
Range(s) == {s[i] : i \in 1..Len(s)}

\* np.unique(x_column, return_index=True)[1]: the first index of each value
FirstIndices(x) == {i \in 1..Len(x) : \A j \in 1..(i - 1) : x[j] # x[i]}

\* the borders of all the materials that have some (lines 98-103)
AllBorders(materials) ==
  UNION {Range(materials[m]) : m \in 1..Len(materials)}

\* the indices of the dofs that share the coordinate closest to a border
\* (lines 106-111)
BorderIndices(x, borders) ==
  UNION { LET closest == ArgMin([i \in 1..Len(x) |-> Abs(x[i] - b)])
          IN {i \in 1..Len(x) : x[i] = x[closest]} : b \in borders }

\* the sequence s restricted to the elements that are in the set keep
RECURSIVE Filter(_, _)
Filter(s, keep) ==
  IF Len(s) = 0 THEN <<>>
  ELSE (IF Head(s) \in keep THEN <<Head(s)>> ELSE <<>>) \o Filter(Tail(s), keep)

\* _unique_indices as initialise_TXTExport computes it (lines 96-126) when
\* np.argsort returns order
UniqueIndices(order, x, project_to_DG, materials) ==
  IF project_to_DG
  THEN Filter(order, FirstIndices(x) \cup BorderIndices(x, AllBorders(materials)))
  ELSE order

\* column[indices]
Take(column, indices) == [k \in 1..Len(indices) |-> column[indices[k]]]

RECURSIVE Pow10(_)
Pow10(e) == IF e = 0 THEN 1 ELSE 10 * Pow10(e - 1)

RECURSIVE Log10Floor(_)
\* the number of digits of n, less one
Log10Floor(n) == IF n < 10 THEN 0 ELSE 1 + Log10Floor(n \div 10)

\* format(n, ".2e") of a number n >= 0: three digits and an exponent, the
\* digits rounded half to even
Format2e(n) ==
  IF n = 0 THEN [mant |-> 0, exp |-> 0]
  ELSE LET e == Log10Floor(n)
       IN IF e <= 2 THEN [mant |-> n * Pow10(2 - e), exp |-> e]
          ELSE LET unit == Pow10(e - 2)
                   q == n \div unit
                   r == n % unit
                   up == 2 * r > unit \/ (2 * r = unit /\ q % 2 = 1)
                   m == IF up THEN q + 1 ELSE q
               IN IF m = 1000 THEN [mant |-> 100, exp |-> e + 1]
                  ELSE [mant |-> m, exp |-> e]

\* format(n, ",.0f") of a whole number n >= 0: its digits, with a comma
\* before every group of three; commas is the number of those commas
FormatComma0f(n) == [digits |-> n, commas |-> Log10Floor(n) \div 3]

\* the labels of the header, which the code joins with commas; fmt is the
\* header_format the time was formatted with
XLabel == [kind |-> "x", fmt |-> "", mant |-> 0, exp |-> 0]
SteadyLabel == [kind |-> "t=steady", fmt |-> "", mant |-> 0, exp |-> 0]
TimeLabel(fmt, t) ==
  IF fmt = ".2e"
  THEN [kind |-> "t=", fmt |-> fmt, mant |-> Format2e(t).mant, exp |-> Format2e(t).exp]
  ELSE [kind |-> "t=", fmt |-> fmt, mant |-> FormatComma0f(t).digits, exp |-> 0]

\* the number of commas inside a label
LabelCommas(label) ==
  IF label.fmt = ",.0f" THEN FormatComma0f(label.mant).commas ELSE 0

RECURSIVE HeaderPieces(_)
\* len(header.split(",")) of the header string the labels are joined into
HeaderPieces(header) ==
  IF Len(header) = 0 THEN 0
  ELSE 1 + LabelCommas(Head(header)) + HeaderPieces(Tail(header))

\* faulty variant: any string is accepted, whatever its ending
TXTFilenameSetterAnyString(value) ==
  IF value.type # "NoneType" /\ value.type # "str"
  THEN [raised |-> Exc("TypeError", "filename must be a string"), val |-> Unset]
  ELSE [raised |-> NoExc, val |-> value]

\* TXTExport.filename setter
TXTFilenameSetter(value) ==
  IF value.type # "NoneType" /\ value.type # "str"
  THEN [raised |-> Exc("TypeError", "filename must be a string"), val |-> Unset]
  ELSE IF value.type # "NoneType" /\ ~EndsWith(value.name, ".txt")
       THEN [raised |-> Exc("ValueError", "filename must end with .txt"), val |-> Unset]
       ELSE [raised |-> NoExc, val |-> value]

\* TXTExport.is_it_time_to_export(current_time)
IsItTimeToExport(o, current_time) ==
  IF o.times.none THEN TRUE
  ELSE \E i \in 1..Len(o.times.list) : IsClose(o.times.list[i], current_time)

\* TXTExport.is_last(current_time, final_time); with an empty list of times
\* times[-1] raises, and write never asks
IsLast(o, current_time, final_time) ==
  IF final_time = FinalNone THEN TRUE
  ELSE IF o.times.none THEN IsClose(current_time, final_time)
       ELSE /\ Len(o.times.list) > 0
            /\ IsClose(current_time, o.times.list[Len(o.times.list)])

\* header and data are None until initialise_TXTExport
NoTXT == [exists |-> FALSE, field |-> Unset, times |-> TimesNone, filename |-> Unset,
          write_at_last |-> FALSE, header_format |-> ".2e",
          data |-> <<>>, header |-> <<>>, unique_indices |-> <<>>, V |-> "None"]

\* the files TXTExport may name; saves counts the calls of np.savetxt
TXTFiles == {"out.txt", "results/out.txt"}
NoTXTFile == [exists |-> FALSE, header |-> <<>>, data |-> <<>>]
TXTNoFiles == [dir |-> FALSE, files |-> [f \in TXTFiles |-> NoTXTFile], saves |-> 0]

\* faulty variant: the label is added to the header, the column is not
TXTExportedHeaderOnly(o, current_time, final_time, sol) ==
  [o EXCEPT !.header = Append(o.header, IF final_time = FinalNone THEN SteadyLabel
                                        ELSE TimeLabel(o.header_format, current_time))]

\* the object after write has added the label of this export to the header
\* and the column of the solution to the data (lines 145-154)
TXTExported(o, current_time, final_time, sol) ==
  LET label == IF final_time = FinalNone THEN SteadyLabel
               ELSE TimeLabel(o.header_format, current_time)
  IN [o EXCEPT !.header = Append(o.header, label),
               !.data = Append(o.data, Take(sol, o.unique_indices))]

\* TXTExport.write(current_time, final_time) on object o with file system fs
\* and the dof values sol of the projected solution: the exception raised,
\* the object and the file system afterwards
TXTWriteResult(o, fs, current_time, final_time, sol) ==
  IF ~IsItTimeToExport(o, current_time)
  THEN [raised |-> NoExc, txt |-> o, fs |-> fs]
  ELSE IF o.filename.type = "NoneType"
  THEN [raised |-> Exc("TypeError",
                       "expected str, bytes or os.PathLike object, not NoneType"),
        txt |-> o, fs |-> fs]
  ELSE IF DirName(o.filename.name) = ""
  THEN [raised |-> Exc("FileNotFoundError", "[Errno 2] No such file or directory: ''"),
        txt |-> o, fs |-> fs]
  ELSE LET fs1 == [fs EXCEPT !.dir = TRUE]
       IN IF o.header = <<>>
          THEN [raised |-> Exc("TypeError",
                    "unsupported operand type(s) for +=: 'NoneType' and 'str'"),
                txt |-> o, fs |-> fs1]
          ELSE LET o1 == TXTExported(o, current_time, final_time, sol)
               IN IF (o1.write_at_last /\ IsLast(o1, current_time, final_time))
                     \/ ~o1.write_at_last
                  THEN [raised |-> NoExc, txt |-> o1,
                        fs |-> [fs1 EXCEPT
                                  !.files[o1.filename.name] =
                                     [exists |-> TRUE, header |-> o1.header,
                                      data |-> o1.data],
                                  !.saves = fs1.saves + 1]]
                  ELSE [raised |-> NoExc, txt |-> o1, fs |-> fs1]

TXTTimesInputs == { TimesNone, TimesList(<<>>), TimesList(<<2, 1>>),
                    TimesList(<<100000>>) }
TXTFilenameInputs ==
  { NoneV, StrV("out.txt"), StrV("results/out.txt"), StrV("out.csv"), IntV("1") }
\* the dof coordinates of the function space: CG1 and DG1 on a mesh of two
\* cells whose dofs are not numbered from left to right
TXTMeshX(project_to_DG) == IF project_to_DG THEN <<2, 1, 1, 0>> ELSE <<2, 0, 1>>
\* the borders of the materials: one material without borders, or two
\* materials that meet at x = 1
TXTMaterialsInputs == { << <<>> >>, << <<0, 1>>, <<1, 2>> >> }
\* the times of the calls of write, and the final times
TXTCurrentTimes == {1, 2, 99999, 100000}
TXTFinalTimes == {FinalNone, 2, 100000}
\* the dof values of the solution at a call: u at every dof, plus the dof number
TXTSolution(o, u) ==
  [i \in 1..(IF o.V = "DG" THEN 4 ELSE IF o.V = "CG" THEN 3 ELSE 0) |-> 10 * u + i]

\* the header formats: the default, and one with a thousands separator
TXTHeaderFormats == {".2e", ",.0f"}

\* TXTExport(field, filename, times, write_at_last, header_format); the model
\* follows one object, so the constructor is called until it returns one
TXTConstruct(field, filename, times, write_at_last, header_format) ==
  /\ ~txt.exists
  /\ txt_call.seq < MaxCalls
  /\ LET n == TXTFilenameSetter(filename)
     IN /\ txt' = IF n.raised # NoExc THEN NoTXT
                  ELSE [NoTXT EXCEPT
                          !.exists = TRUE,
                          !.field = field,
                          !.times = IF ~times.none /\ Len(times.list) > 0
                                    THEN TimesList(Sorted(times.list))
                                    ELSE times,
                          !.filename = n.val,
                          !.write_at_last = write_at_last,
                          !.header_format = header_format]
        /\ txt_call' = Call(txt_call, "init", <<field, filename>>, -1, n.raised)
  /\ UNCHANGED <<txt_file, xvars, avars, svars, dvars, pvars, hvars>>

\* my_export.filename = value
TXTSetFilename(value) ==
  /\ txt.exists
  /\ txt_call.seq < MaxCalls
  /\ LET r == TXTFilenameSetter(value)
     IN /\ txt' = IF r.raised # NoExc THEN txt ELSE [txt EXCEPT !.filename = r.val]
        /\ txt_call' = Call(txt_call, "set_filename", <<value>>, -1, r.raised)
  /\ UNCHANGED <<txt_file, xvars, avars, svars, dvars, pvars, hvars>>

\* my_export.initialise_TXTExport(mesh, project_to_DG, materials)
TXTInitialise(project_to_DG, materials) ==
  /\ txt.exists
  /\ txt_call.seq < MaxCalls
  /\ \E order \in ArgSort(TXTMeshX(project_to_DG)) :
       LET x == TXTMeshX(project_to_DG)
           idx == UniqueIndices(order, x, project_to_DG, materials)
       IN txt' = [txt EXCEPT !.V = IF project_to_DG THEN "DG" ELSE "CG",
                             !.unique_indices = idx,
                             !.data = <<Take(x, idx)>>,
                             !.header = <<XLabel>>]
  /\ txt_call' = Call(txt_call, "initialise", <<>>, -1, NoExc)
  /\ UNCHANGED <<txt_file, xvars, avars, svars, dvars, pvars, hvars>>

\* my_export.write(current_time, final_time)
TXTWrite(current_time, final_time, u) ==
  /\ txt.exists
  /\ txt_call.seq < MaxCalls
  /\ LET r == TXTWriteResult(txt, txt_file, current_time, final_time,
                             TXTSolution(txt, u))
     IN /\ txt' = r.txt
        /\ txt_file' = r.fs
        /\ txt_call' = Call(txt_call, "write", <<final_time, u>>, current_time, r.raised)
  /\ UNCHANGED <<xvars, avars, svars, dvars, pvars, hvars>>

TXTIdle == txt = NoTXT /\ txt_file = TXTNoFiles /\ txt_call = NoCall

\* no object yet; the directory may be there already
TXTInit ==
  /\ txt = NoTXT
  /\ txt_call = NoCall
  /\ \E d \in BOOLEAN : txt_file = [TXTNoFiles EXCEPT !.dir = d]

TXTNext ==
  \/ \E n \in TXTFilenameInputs, ts \in TXTTimesInputs, w \in BOOLEAN,
        hf \in TXTHeaderFormats :
       TXTConstruct(StrV("solute"), n, ts, w, hf)
  \/ \E n \in TXTFilenameInputs : TXTSetFilename(n)
  \/ \E dg \in BOOLEAN, m \in TXTMaterialsInputs : TXTInitialise(dg, m)
  \/ \E c \in TXTCurrentTimes, f \in TXTFinalTimes, u \in {0, 1} : TXTWrite(c, f, u)

(***************************************************************************)
(* Derived quantities (post_processing.py).  parameters["exports"]         *)
(* ["derived_quantities"] is a dict: a sequence of items in insertion      *)
(* order, a key and, for a quantity, its list of entries.  An entry is a   *)
(* dict that may hold 'field', 'surfaces' and 'volumes'.                   *)
(***************************************************************************)
\* number of traps of the simulation
MaxTraps == 1

\* FESTIM.helpers.quantity_types and field_types, and the keys of the dict
\* that are not quantities (lines 499-501)
QuantityTypes == {"surface_flux", "average_volume", "average_surface",
                  "maximum_volume", "minimum_volume", "total_volume",
                  "total_surface"}
FieldTypes == {"solute", "retention", "T"}
NonQuantityTypes == {"file", "folder", "nb_iterations_between_compute",
                     "nb_iterations_between_exports"}

\* str(n) of the integers the model uses
IntStr(n) ==
  CASE n = -1 -> "-1" [] n = 0 -> "0" [] n = 1 -> "1" [] n = 2 -> "2"
    [] n = 3 -> "3" [] n = 4 -> "4" [] OTHER -> "5"

\* str.isdigit and int(s) of the strings the model uses
IsDigit(s) == s \in {"0", "1", "2", "3", "4", "5"}
IntOf(s) == CHOOSE n \in 0..5 : IntStr(n) = s

\* the value of 'field' in an entry: missing, an int, a str or a float; s is
\* str(field)
NoField == [kind |-> "missing", n |-> 0, s |-> ""]
IntField(n) == [kind |-> "int", n |-> n, s |-> IntStr(n)]
StrField(s) == [kind |-> "str", n |-> 0, s |-> s]
FloatField(s) == [kind |-> "float", n |-> 0, s |-> s]

\* an entry; has_surfaces says whether the key 'surfaces' is there
DQEntry(field, has_surfaces, surfaces, has_volumes, volumes) ==
  [field |-> field, has_surfaces |-> has_surfaces, surfaces |-> surfaces,
   has_volumes |-> has_volumes, volumes |-> volumes]
DQItem(key, entries) == [key |-> key, entries |-> entries]

\* key in d, and d[key]
HasKey(config, key) == \E i \in 1..Len(config) : config[i].key = key
Lookup(config, key) ==
  config[CHOOSE i \in 1..Len(config) : config[i].key = key].entries

\* the first exception of a sequence of outcomes, none if there is none
FirstExc(s) ==
  IF \E i \in 1..Len(s) : s[i] # NoExc
  THEN s[CHOOSE i \in 1..Len(s) :
           s[i] # NoExc /\ \A j \in 1..(i - 1) : s[j] = NoExc]
  ELSE NoExc

\* faulty variant: a field given as a str is never refused
CheckEntryAnyString(e, ntraps) ==
  IF e.field.kind = "missing" THEN Exc("KeyError", "Missing key 'field'")
  ELSE IF e.field.kind = "int" /\ (e.field.n > ntraps \/ e.field.n < 0)
  THEN Exc("ValueError", "Unknown field: " \o e.field.s)
  ELSE IF ~e.has_surfaces /\ ~e.has_volumes
  THEN Exc("KeyError", "Missing key 'surfaces' or 'volumes'")
  ELSE NoExc

\* the checks of one entry of a quantity (lines 507-532)
CheckEntry(e, ntraps) ==
  IF e.field.kind = "missing" THEN Exc("KeyError", "Missing key 'field'")
  ELSE IF e.field.kind = "int" /\ (e.field.n > ntraps \/ e.field.n < 0)
  THEN Exc("ValueError", "Unknown field: " \o e.field.s)
  ELSE IF /\ e.field.kind = "str"
          /\ e.field.s \notin FieldTypes
          /\ IF IsDigit(e.field.s)
             THEN IF ntraps # 0
                  THEN IntOf(e.field.s) > ntraps \/ IntOf(e.field.s) < 0
                  ELSE TRUE
             ELSE TRUE
  THEN Exc("ValueError", "Unknown field: " \o e.field.s)
  ELSE IF ~e.has_surfaces /\ ~e.has_volumes
  THEN Exc("KeyError", "Missing key 'surfaces' or 'volumes'")
  ELSE NoExc

\* the checks of one key of the dict (lines 502-506)
CheckItem(item, ntraps) ==
  IF item.key \notin (QuantityTypes \cup NonQuantityTypes)
  THEN Exc("ValueError", "Unknown quantity: " \o item.key)
  ELSE IF item.key \notin NonQuantityTypes
       THEN FirstExc([i \in 1..Len(item.entries) |->
                        CheckEntry(item.entries[i], ntraps)])
       ELSE NoExc

\* check_keys_derived_quantities(simulation): the exception raised, if any
CheckKeysDerivedQuantities(config, ntraps) ==
  FirstExc([i \in 1..Len(config) |-> CheckItem(config[i], ntraps)])

RECURSIVE Collect(_)
\* the outcomes of consecutive pieces of work put together: the first
\* exception, or all the values in order
Collect(rs) ==
  IF Len(rs) = 0 THEN [raised |-> NoExc, val |-> <<>>]
  ELSE IF Head(rs).raised # NoExc THEN [raised |-> Head(rs).raised, val |-> <<>>]
  ELSE LET rest == Collect(Tail(rs))
       IN IF rest.raised # NoExc THEN rest
          ELSE [raised |-> NoExc, val |-> Head(rs).val \o rest.val]

\* the entries of quantity q of the dict, none when the key is not there
EntriesOf(config, q) == IF HasKey(config, q) THEN Lookup(config, q) ELSE <<>>

\* the order in which header_derived_quantities goes through the quantities
\* (lines 335-370)
HeaderQuantityOrder ==
  <<"surface_flux", "average_volume", "minimum_volume", "maximum_volume",
    "total_volume", "total_surface">>

\* the order in which derived_quantities goes through them (lines 426-482)
ComputeQuantityOrder ==
  <<"surface_flux", "average_volume", "minimum_volume", "maximum_volume",
    "total_volume", "total_surface">>

\* the labels of the header: 't(s)', and for a column the words of the
\* label, the field and the surface or volume
TimeColumn == [prefix |-> "t(s)", field |-> "", kind |-> "", region |-> 0]
ColumnLabel(q, field, region) ==
  CASE q = "surface_flux" ->
         [prefix |-> "Flux", field |-> field, kind |-> "surface", region |-> region]
    [] q = "average_volume" ->
         [prefix |-> "Average", field |-> field, kind |-> "volume", region |-> region]
    [] q = "minimum_volume" ->
         [prefix |-> "Minimum", field |-> field, kind |-> "volume", region |-> region]
    [] q = "maximum_volume" ->
         [prefix |-> "Maximum", field |-> field, kind |-> "volume", region |-> region]
    [] q = "total_volume" ->
         [prefix |-> "Total", field |-> field, kind |-> "volume", region |-> region]
    [] q = "total_surface" ->
         [prefix |-> "Total", field |-> field, kind |-> "surface", region |-> region]

\* whether the quantity is taken over the surfaces of an entry (else over
\* its volumes)
OverSurfaces(q) == q \in {"surface_flux", "total_surface"}

\* the labels header_derived_quantities adds for one entry of quantity q
HeaderOfEntry(q, e) ==
  IF OverSurfaces(q)
  THEN IF ~e.has_surfaces
       THEN [raised |-> Exc("KeyError", "surfaces"), val |-> <<>>]
       ELSE [raised |-> NoExc,
             val |-> [k \in 1..Len(e.surfaces) |->
                        ColumnLabel(q, e.field.s, e.surfaces[k])]]
  ELSE IF ~e.has_volumes
       THEN [raised |-> Exc("KeyError", "volumes"), val |-> <<>>]
       ELSE [raised |-> NoExc,
             val |-> [k \in 1..Len(e.volumes) |->
                        ColumnLabel(q, e.field.s, e.volumes[k])]]

\* the labels of all the entries of quantity q
HeaderOfQuantity(config, q) ==
  Collect([i \in 1..Len(EntriesOf(config, q)) |->
             HeaderOfEntry(q, EntriesOf(config, q)[i])])

\* header_derived_quantities(simulation); configured says whether
\* parameters["exports"]["derived_quantities"] is there
HeaderDerivedQuantities(configured, config, ntraps) ==
  IF ~configured THEN [raised |-> NoExc, val |-> <<TimeColumn>>]
  ELSE IF CheckKeysDerivedQuantities(config, ntraps) # NoExc
  THEN [raised |-> CheckKeysDerivedQuantities(config, ntraps), val |-> <<>>]
  ELSE LET cols == Collect([j \in 1..Len(HeaderQuantityOrder) |->
                              HeaderOfQuantity(config, HeaderQuantityOrder[j])])
       IN IF cols.raised # NoExc THEN cols
          ELSE [raised |-> NoExc, val |-> <<TimeColumn>> \o cols.val]

\* the keys of field_to_sol and field_to_prop (lines 411-421); solutions
\* holds the mobile concentration, one function per trap, retention and T
FieldToSolKeys(ntraps) ==
  {"solute", "retention", "T"} \cup {IntStr(i) : i \in 1..ntraps}
FieldToPropKeys == {"solute", "T"}

\* a computed quantity: which one, of which field, over which surface or
\* volume
Quantity(q, field, region) == [quantity |-> q, field |-> field, region |-> region]

\* the values of quantity q over the surfaces or the volumes of an entry
ValuesOfEntry(q, e) ==
  IF OverSurfaces(q)
  THEN IF ~e.has_surfaces
       THEN [raised |-> Exc("KeyError", "surfaces"), val |-> <<>>]
       ELSE [raised |-> NoExc,
             val |-> [k \in 1..Len(e.surfaces) |->
                        Quantity(q, e.field.s, e.surfaces[k])]]
  ELSE IF ~e.has_volumes
       THEN [raised |-> Exc("KeyError", "volumes"), val |-> <<>>]
       ELSE [raised |-> NoExc,
             val |-> [k \in 1..Len(e.volumes) |->
                        Quantity(q, e.field.s, e.volumes[k])]]

\* what derived_quantities computes for one entry of quantity q: the field
\* is looked up in field_to_sol (and in field_to_prop for a flux; not at all
\* for the minimum or maximum of retention), then the surfaces or volumes
\* are gone through
ComputeEntry(q, e, ntraps) ==
  IF e.field.kind = "missing"
  THEN [raised |-> Exc("KeyError", "field"), val |-> <<>>]
  ELSE IF q \in {"minimum_volume", "maximum_volume"} /\ e.field.s = "retention"
  THEN ValuesOfEntry(q, e)
  ELSE IF e.field.s \notin FieldToSolKeys(ntraps)
  THEN [raised |-> Exc("KeyError", e.field.s), val |-> <<>>]
  ELSE IF q = "surface_flux" /\ e.field.s \notin FieldToPropKeys
  THEN [raised |-> Exc("KeyError", e.field.s), val |-> <<>>]
  ELSE ValuesOfEntry(q, e)

\* the values of all the entries of quantity q
ComputeQuantity(config, q, ntraps) ==
  Collect([i \in 1..Len(EntriesOf(config, q)) |->
             ComputeEntry(q, EntriesOf(config, q)[i], ntraps)])

\* derived_quantities(parameters, solutions, markers, properties)
DerivedQuantities(config, ntraps) ==
  Collect([j \in 1..Len(ComputeQuantityOrder) |->
             ComputeQuantity(config, ComputeQuantityOrder[j], ntraps)])

\* the fields, the surfaces and volumes, the entries and the dicts the
\* functions are applied to
DQFields ==
  { NoField, FloatField("1.5") }
  \cup { StrField(s) : s \in {"solute", "retention", "T", "foo", "0", "1"} }
  \cup { IntField(n) : n \in -1..(MaxTraps + 1) }
DQRegions ==
  { [hs |-> TRUE, s |-> <<2, 1>>, hv |-> FALSE, v |-> <<>>],
    [hs |-> FALSE, s |-> <<>>, hv |-> TRUE, v |-> <<1>>],
    [hs |-> TRUE, s |-> <<2, 1>>, hv |-> TRUE, v |-> <<1>>],
    [hs |-> FALSE, s |-> <<>>, hv |-> FALSE, v |-> <<>>] }
DQEntries ==
  { DQEntry(f, r.hs, r.s, r.hv, r.v) : f \in DQFields, r \in DQRegions }
\* entries with surfaces and volumes, for dicts of several quantities
DQFullEntries ==
  { DQEntry(f, TRUE, <<2, 1>>, TRUE, <<1>>) :
      f \in {StrField("solute"), StrField("retention"), IntField(0)} }
DQOrderKeys == {"total_surface", "surface_flux", "total_volume", "minimum_volume"}
DQConfigs ==
  { <<DQItem(k, <<e>>)>> : k \in QuantityTypes \cup {"flux"}, e \in DQEntries }
  \cup { <<DQItem("file", <<>>)>> }
  \cup { c \in { <<DQItem(k1, <<e1>>), DQItem("file", <<>>), DQItem(k2, <<e2>>)>> :
                   k1 \in DQOrderKeys, k2 \in DQOrderKeys,
                   e1 \in DQFullEntries, e2 \in DQFullEntries } :
           c[1].key # c[3].key }
  \cup { <<DQItem(k, <<e, DQEntry(StrField("T"), TRUE, <<1>>, TRUE, <<2>>)>>)>> :
           k \in DQOrderKeys, e \in DQFullEntries }

\* no function called yet
NoDQCall == [seq |-> 0, op |-> "", raised |-> NoExc, val |-> <<>>]
DQCall(op, r) ==
  [seq |-> dq_call.seq + 1, op |-> op, raised |-> r.raised, val |-> r.val]

\* FESTIM.post_processing.check_keys_derived_quantities(simulation)
DQCheckKeys ==
  /\ dq.configured
  /\ dq_call.seq < MaxCalls
  /\ dq_call' = DQCall("check_keys",
                       [raised |-> CheckKeysDerivedQuantities(dq.config, dq.ntraps),
                        val |-> <<>>])
  /\ UNCHANGED <<dq, xvars, avars, svars, tvars, pvars, hvars>>

\* FESTIM.post_processing.header_derived_quantities(simulation)
DQHeader ==
  /\ dq_call.seq < MaxCalls
  /\ dq_call' = DQCall("header",
                       HeaderDerivedQuantities(dq.configured, dq.config, dq.ntraps))
  /\ UNCHANGED <<dq, xvars, avars, svars, tvars, pvars, hvars>>

\* FESTIM.post_processing.derived_quantities(parameters, solutions, ...)
DQCompute ==
  /\ dq.configured
  /\ dq_call.seq < MaxCalls
  /\ dq_call' = DQCall("derived_quantities", DerivedQuantities(dq.config, dq.ntraps))
  /\ UNCHANGED <<dq, xvars, avars, svars, tvars, pvars, hvars>>

DQIdle ==
  /\ dq = [configured |-> FALSE, config |-> <<>>, ntraps |-> 0]
  /\ dq_call = NoDQCall

\* a simulation with some derived_quantities dict, or with none
DQInit ==
  /\ dq_call = NoDQCall
  /\ \E n \in 0..MaxTraps :
       \/ dq = [configured |-> FALSE, config |-> <<>>, ntraps |-> n]
       \/ \E c \in DQConfigs : dq = [configured |-> TRUE, config |-> c, ntraps |-> n]

DQNext == DQCheckKeys \/ DQHeader \/ DQCompute

(***************************************************************************)
(* run_post_processing (post_processing.py).  The Simulation holds the     *)
(* counters of the time loop, the export settings, the derived_quantities  *)
(* dict, the rows computed so far and its exports.                         *)
(***************************************************************************)
\* final times of the simulations
PPFinalTimes == {1, 2}

\* nb_iterations_between_export_derived_quantities when it is None
NbNone == 0

\* faulty variant: a transient run always exports every N iterations, with N
\* taken as 1 when it is None
IsExportEveryIteration(sim) ==
  IF sim.transient
  THEN IF sim.nb_iterations_between_export_derived_quantities = NbNone
       THEN TRUE
       ELSE sim.nb_iterations %
              sim.nb_iterations_between_export_derived_quantities = 0
  ELSE TRUE

\* is_export_derived_quantities(simulation)
IsExportDerivedQuantities(sim) ==
  IF sim.transient
  THEN IF sim.nb_iterations_between_export_derived_quantities = NbNone
       THEN sim.t >= sim.final_time
       ELSE sim.nb_iterations %
              sim.nb_iterations_between_export_derived_quantities = 0
  ELSE TRUE

\* what write_to_csv has received: the number of calls and the rows of the
\* last one
NoCSV == [writes |-> 0, rows |-> <<>>]

\* a value of the row: the time, or a computed quantity
TimeValue(t) == [quantity |-> "t", field |-> "", region |-> t]

\* faulty variant: the row is stored without the time
ComputeAndExportNoTime(sim) ==
  IF ~sim.configured THEN [raised |-> NoExc, sim |-> sim]
  ELSE LET computes == sim.nb_iterations %
                         sim.nb_iterations_between_compute_derived_quantities = 0
           tab == IF computes THEN DerivedQuantities(sim.config, sim.ntraps)
                  ELSE [raised |-> NoExc, val |-> <<>>]
       IN IF tab.raised # NoExc THEN [raised |-> tab.raised, sim |-> sim]
          ELSE LET rows == IF computes
                           THEN Append(sim.derived_quantities_global, tab.val)
                           ELSE sim.derived_quantities_global
                   sim1 == [sim EXCEPT !.derived_quantities_global = rows]
               IN [raised |-> NoExc,
                   sim |-> IF IsExportDerivedQuantities(sim1)
                           THEN [sim1 EXCEPT !.csv = [writes |-> sim.csv.writes + 1,
                                                      rows |-> rows]]
                           ELSE sim1]

\* the derived quantities part of run_post_processing (lines 70-88): the
\* exception raised and the simulation afterwards
ComputeAndExport(sim) ==
  IF ~sim.configured THEN [raised |-> NoExc, sim |-> sim]
  ELSE LET computes == sim.nb_iterations %
                         sim.nb_iterations_between_compute_derived_quantities = 0
           tab == IF computes THEN DerivedQuantities(sim.config, sim.ntraps)
                  ELSE [raised |-> NoExc, val |-> <<>>]
       IN IF tab.raised # NoExc THEN [raised |-> tab.raised, sim |-> sim]
          ELSE LET rows == IF computes
                           THEN Append(sim.derived_quantities_global,
                                       <<TimeValue(sim.t)>> \o tab.val)
                           ELSE sim.derived_quantities_global
                   sim1 == [sim EXCEPT !.derived_quantities_global = rows]
               IN [raised |-> NoExc,
                   sim |-> IF IsExportDerivedQuantities(sim1)
                           THEN [sim1 EXCEPT !.csv = [writes |-> sim.csv.writes + 1,
                                                      rows |-> rows]]
                           ELSE sim1]

\* an export of simulation.exports.exports: an XDMFExport or another kind;
\* writes holds, for each call of write, the time and the value of append
\* at the call
XDMFExportV(last_time_step_only) ==
  [class |-> "XDMFExport", last_time_step_only |-> last_time_step_only,
   append |-> FALSE, writes |-> <<>>]
OtherExportV ==
  [class |-> "TXTExport", last_time_step_only |-> FALSE,
   append |-> FALSE, writes |-> <<>>]

\* faulty variant: last_time_step_only is not looked at
IsXDMFWrittenEveryTime(sim, export) ==
  /\ export.class = "XDMFExport"
  /\ sim.nb_iterations % sim.nb_iterations_between_exports = 0

\* the conditions under which the loop writes an export (lines 91-96)
IsXDMFWritten(sim, export) ==
  /\ export.class = "XDMFExport"
  /\ \/ export.last_time_step_only /\ sim.t >= sim.final_time
     \/ ~export.last_time_step_only
  /\ sim.nb_iterations % sim.nb_iterations_between_exports = 0

\* the loop over the exports (lines 90-102)
WriteXDMFExports(sim) ==
  [sim EXCEPT !.exports =
     [i \in 1..Len(sim.exports) |->
        IF IsXDMFWritten(sim, sim.exports[i])
        THEN [sim.exports[i] EXCEPT
                !.writes = Append(sim.exports[i].writes,
                                  [t |-> sim.t, append |-> sim.exports[i].append]),
                !.append = TRUE]
        ELSE sim.exports[i]]]

\* run_post_processing(simulation)
RunPostProcessing(sim) ==
  LET r == ComputeAndExport(sim)
  IN IF r.raised # NoExc THEN r
     ELSE [raised |-> NoExc, sim |-> WriteXDMFExports(r.sim)]

\* the derived_quantities dicts of the simulations: they have passed
\* check_keys_derived_quantities when the header was made
PPConfigs ==
  { << DQItem("total_volume", <<DQEntry(StrField("retention"), FALSE, <<>>,
                                        TRUE, <<1>>)>>),
       DQItem("surface_flux", <<DQEntry(StrField("solute"), TRUE, <<2, 1>>,
                                        FALSE, <<>>)>>) >>,
    << DQItem("average_volume", <<DQEntry(IntField(0), FALSE, <<>>,
                                          TRUE, <<1>>)>>) >> }
PPExports ==
  { <<>>, <<XDMFExportV(FALSE)>>,
    <<XDMFExportV(TRUE), OtherExportV, XDMFExportV(FALSE)>> }

NoPPCall == [seq |-> 0, raised |-> NoExc]

\* one iteration of the time loop: the loop has set nb_iterations and t,
\* never backwards, and calls run_post_processing(simulation)
PPRun(nb_iterations, t) ==
  /\ pp_call.seq < MaxCalls
  /\ LET r == RunPostProcessing([pp EXCEPT !.nb_iterations = nb_iterations,
                                           !.t = t])
     IN /\ pp' = r.sim
        /\ pp_call' = [seq |-> pp_call.seq + 1, raised |-> r.raised]
  /\ UNCHANGED <<xvars, avars, svars, tvars, dvars, hvars>>

PPIdle ==
  /\ pp = [transient |-> FALSE, final_time |-> 0, nb_iterations |-> 0, t |-> 0,
           nb_iterations_between_compute_derived_quantities |-> 1,
           nb_iterations_between_export_derived_quantities |-> NbNone,
           nb_iterations_between_exports |-> 1,
           configured |-> FALSE, config |-> <<>>, ntraps |-> 0,
           derived_quantities_global |-> <<>>, csv |-> NoCSV, exports |-> <<>>]
  /\ pp_call = NoPPCall

\* a simulation before its first iteration
PPInit ==
  /\ pp_call = NoPPCall
  /\ \E transient \in BOOLEAN, final_time \in PPFinalTimes,
        nc \in {1, 2}, ne \in {NbNone, 2}, nx \in {1, 2},
        configured \in BOOLEAN, exports \in PPExports :
       \E config \in (IF configured THEN PPConfigs ELSE {<<>>}) :
         pp = [transient |-> transient, final_time |-> final_time,
               nb_iterations |-> 0, t |-> 0,
               nb_iterations_between_compute_derived_quantities |-> nc,
               nb_iterations_between_export_derived_quantities |-> ne,
               nb_iterations_between_exports |-> nx,
               configured |-> configured, config |-> config, ntraps |-> 0,
               derived_quantities_global |-> <<>>, csv |-> NoCSV,
               exports |-> exports]

PPNext ==
  \E n \in {pp.nb_iterations, pp.nb_iterations + 1}, t \in {pp.t, pp.t + 1} :
    PPRun(n, t)

(***************************************************************************)
(* HydrogenTransportProblem (hydrogen_transport_problem.py).  The mesh is  *)
(* a 1D mesh given by its vertices, from left to right: cell c lies        *)
(* between vertices c and c + 1, and the dofs of the CG1 function space    *)
(* are the vertices.                                                       *)
(***************************************************************************)
\* number of calls made on one problem: the constructor, assignments, the
\* steps of initialise called on their own and initialise
MaxProblemCalls == 5

MeshV(vertices) == [type |-> "Mesh", vertices |-> vertices]
NoMesh == [type |-> "NoneType", vertices |-> <<>>]
NumCells(mesh) == Len(mesh.vertices) - 1

\* festim.SurfaceSubdomain1D(id, x) and festim.VolumeSubdomain1D(id,
\* borders, material)
Surface1D(id, x) == [class |-> "SurfaceSubdomain1D", id |-> id, x |-> x, borders |-> <<>>]
Volume1D(id, borders) == [class |-> "VolumeSubdomain1D", id |-> id, x |-> 0, borders |-> borders]

\* SurfaceSubdomain1D.locate_dof(function_space): the dof at x
LocateDof(sub_dom, mesh) ==
  CHOOSE d \in 1..Len(mesh.vertices) :
    \A e \in 1..Len(mesh.vertices) :
      Abs(mesh.vertices[d] - sub_dom.x) <= Abs(mesh.vertices[e] - sub_dom.x)

\* VolumeSubdomain1D.locate_subdomain_entities(mesh, vdim): the cells
\* between the borders
LocateSubdomainEntities(sub_dom, mesh) ==
  {c \in 1..NumCells(mesh) : /\ mesh.vertices[c] >= sub_dom.borders[1]
                             /\ mesh.vertices[c + 1] <= sub_dom.borders[2]}

RECURSIVE TagVolumesFirstWins(_, _, _)
\* tags_volumes if a cell kept the id of the first volume subdomain that
\* contains it (not what the code does: line 141 overwrites)
TagVolumesFirstWins(tags, subdomains, mesh) ==
  IF Len(subdomains) = 0 THEN tags
  ELSE LET s == Head(subdomains)
           marked == IF s.class = "VolumeSubdomain1D"
                     THEN [c \in 1..Len(tags) |->
                             IF c \in LocateSubdomainEntities(s, mesh) /\ tags[c] = 0
                             THEN s.id ELSE tags[c]]
                     ELSE tags
       IN TagVolumesFirstWins(marked, Tail(subdomains), mesh)

RECURSIVE TagVolumes(_, _, _)
\* tags_volumes after the loop over the subdomains (lines 130-141)
TagVolumes(tags, subdomains, mesh) ==
  IF Len(subdomains) = 0 THEN tags
  ELSE LET s == Head(subdomains)
           marked == IF s.class = "VolumeSubdomain1D"
                     THEN [c \in 1..Len(tags) |->
                             IF c \in LocateSubdomainEntities(s, mesh)
                             THEN s.id ELSE tags[c]]
                     ELSE tags
       IN TagVolumes(marked, Tail(subdomains), mesh)

RECURSIVE SelectClass(_, _)
\* the subdomains of one class, in order
SelectClass(subdomains, class) ==
  IF Len(subdomains) = 0 THEN <<>>
  ELSE (IF Head(subdomains).class = class THEN <<Head(subdomains)>> ELSE <<>>)
       \o SelectClass(Tail(subdomains), class)

\* dofs_facets and tags_facets after the loop (lines 132-136)
TagFacets(subdomains, mesh) ==
  LET surfaces == SelectClass(subdomains, "SurfaceSubdomain1D")
  IN [k \in 1..Len(surfaces) |->
        [entity |-> LocateDof(surfaces[k], mesh), tag |-> surfaces[k].id]]

\* a Species: its name, and whether solution, prev_solution and
\* test_function have been assigned
HSpecies(name) == [name |-> name, has_functions |-> FALSE]

\* the problem before the constructor has returned one
NoProblem ==
  [exists |-> FALSE, mesh |-> NoMesh, subdomains |-> <<>>, species |-> <<>>,
   temperature |-> 0, sources |-> <<>>, boundary_conditions |-> <<>>,
   function_space |-> FALSE, facet_meshtags |-> <<>>, volume_meshtags |-> <<>>,
   measures |-> FALSE, volume_subdomains |-> <<>>, formulation |-> <<>>,
   has_formulation |-> FALSE]

\* temperature when it is None
TemperatureNone == 0

\* the temperature setter: the exception raised, if any
TemperatureSetter(p, value) ==
  IF value = TemperatureNone THEN NoExc
  ELSE IF p.mesh.type = "NoneType"
       THEN Exc("AttributeError", "'NoneType' object has no attribute 'mesh'")
       ELSE NoExc

\* define_function_space()
DefineFunctionSpace(p) ==
  IF p.mesh.type = "NoneType"
  THEN [raised |-> Exc("AttributeError", "'NoneType' object has no attribute 'mesh'"),
        p |-> p]
  ELSE [raised |-> NoExc, p |-> [p EXCEPT !.function_space = TRUE]]

\* what dolfinx raises when it is given None for a function space
\* (locate_dofs_geometrical, Function, TestFunction): the type depends on
\* the version of dolfinx installed
MissingFunctionSpaceErrors ==
  { Exc("AttributeError", "'NoneType' object has no attribute '_cpp_object'"),
    Exc("TypeError", "'NoneType' object is not iterable") }

\* what ufl raises when grad is given None for a function: the type depends
\* on the version of ufl installed
MissingFunctionErrors ==
  { Exc("ValueError", "Invalid type conversion: None can not be converted to any UFL type."),
    Exc("UFLException", "Invalid type conversion: None can not be converted to any UFL type.") }

\* the position of the first SurfaceSubdomain1D of subdomains, 0 without one
FirstSurface(subdomains) ==
  IF \A i \in 1..Len(subdomains) : subdomains[i].class # "SurfaceSubdomain1D"
  THEN 0
  ELSE CHOOSE i \in 1..Len(subdomains) :
         /\ subdomains[i].class = "SurfaceSubdomain1D"
         /\ \A j \in 1..(i - 1) : subdomains[j].class # "SurfaceSubdomain1D"

\* define_markers_and_measures(); err is what locate_dof raises when the
\* problem has no function space.  The loop stops at the first surface
\* subdomain then, with the volume subdomains before it already appended
DefineMarkersAndMeasures(p, err) ==
  IF p.mesh.type = "NoneType"
  THEN [raised |-> Exc("AttributeError", "'NoneType' object has no attribute 'mesh'"),
        p |-> p]
  ELSE IF ~p.function_space /\ FirstSurface(p.subdomains) > 0
  THEN [raised |-> err,
        p |-> [p EXCEPT !.volume_subdomains =
                 p.volume_subdomains
                 \o SelectClass(SubSeq(p.subdomains, 1, FirstSurface(p.subdomains) - 1),
                                "VolumeSubdomain1D")]]
  ELSE [raised |-> NoExc,
        p |-> [p EXCEPT
                 !.volume_subdomains =
                    p.volume_subdomains \o SelectClass(p.subdomains, "VolumeSubdomain1D"),
                 !.facet_meshtags = TagFacets(p.subdomains, p.mesh),
                 !.volume_meshtags =
                    TagVolumes([c \in 1..NumCells(p.mesh) |-> 0], p.subdomains, p.mesh),
                 !.measures = TRUE]]

\* assign_functions_to_species(); err is what Function raises when the
\* problem has no function space
AssignFunctionsToSpecies(p, err) ==
  IF Len(p.species) > 1
  THEN [raised |-> Exc("NotImplementedError", "Multiple species not implemented yet"),
        p |-> p]
  ELSE IF Len(p.species) = 1 /\ ~p.function_space
  THEN [raised |-> err, p |-> p]
  ELSE [raised |-> NoExc,
        p |-> [p EXCEPT !.species =
                 [i \in 1..Len(p.species) |->
                    [p.species[i] EXCEPT !.has_functions = TRUE]]]]

\* create_formulation(): one diffusion and one transient term per species
\* and volume subdomain; err is what grad raises when the species has no
\* functions.  formulation is 0 (no term) from line 182 on, whatever the
\* loop does
CreateFormulation(p, err) ==
  IF Len(p.sources) > 1
  THEN [raised |-> Exc("NotImplementedError", "Sources not implemented yet"), p |-> p]
  ELSE IF Len(p.species) > 1
  THEN [raised |-> Exc("NotImplementedError", "Multiple species not implemented yet"),
        p |-> p]
  ELSE IF p.mesh.type = "NoneType"
  THEN [raised |-> Exc("AttributeError", "'NoneType' object has no attribute 'mesh'"),
        p |-> p]
  ELSE LET p0 == [p EXCEPT !.has_formulation = TRUE, !.formulation = <<>>]
       IN IF Len(p.species) = 0 \/ Len(p.volume_subdomains) = 0
          THEN [raised |-> NoExc, p |-> p0]
          ELSE IF ~p.species[1].has_functions
          THEN [raised |-> err, p |-> p0]
          ELSE IF ~p.measures
          THEN [raised |-> Exc("TypeError", "'NoneType' object is not callable"),
                p |-> p0]
          ELSE [raised |-> NoExc,
                p |-> [p0 EXCEPT !.formulation =
                         [k \in 1..Len(p.volume_subdomains) |->
                            [species |-> p.species[1].name,
                             volume |-> p.volume_subdomains[k].id]]]]

\* initialise(): the four steps in order, stopping at the first exception.
\* Once define_function_space has returned the problem has a function
\* space, and the species have their functions once
\* assign_functions_to_species has: the errors of their absence are not
\* raised
Initialise(p) ==
  LET r1 == DefineFunctionSpace(p)
  IN IF r1.raised # NoExc THEN r1
     ELSE LET r2 == DefineMarkersAndMeasures(r1.p, NoExc)
          IN IF r2.raised # NoExc THEN r2
             ELSE LET r3 == AssignFunctionsToSpecies(r2.p, NoExc)
                  IN IF r3.raised # NoExc THEN r3
                     ELSE CreateFormulation(r3.p, NoExc)

\* the values given to the constructor and assigned to the attributes
HTPMeshInputs == {NoMesh, MeshV(<<0, 1, 2>>)}
HTPSubdomainInputs ==
  { <<>>,
    <<Surface1D(1, 0), Volume1D(1, <<0, 1>>), Volume1D(2, <<1, 2>>), Surface1D(2, 2)>>,
    \* two volumes that overlap on the second cell, the right surface first
    <<Surface1D(2, 2), Volume1D(1, <<0, 2>>), Volume1D(2, <<1, 2>>), Surface1D(1, 0)>>,
    \* one volume that leaves the second cell out, and no surface
    <<Volume1D(3, <<0, 1>>)>>,
    \* a volume before the only surface
    <<Volume1D(1, <<0, 2>>), Surface1D(1, 0)>> }
HTPSpeciesInputs ==
  { <<>>, <<HSpecies("H")>>, <<HSpecies("H"), HSpecies("Trap")>> }
HTPTemperatureInputs == {TemperatureNone, 500}
HTPSourceInputs == { <<>>, <<"source1">>, <<"source1", "source2">> }
HTPBoundaryConditionInputs == { <<>>, <<"bc1">> }

NoHTPCall == [seq |-> 0, op |-> "", raised |-> NoExc]
HTPCall(op, raised) == [seq |-> htp_call.seq + 1, op |-> op, raised |-> raised]

\* HydrogenTransportProblem(mesh, subdomains, species, temperature, sources,
\* boundary_conditions)
HTPConstruct(mesh, subdomains, species, temperature, sources, boundary_conditions) ==
  /\ ~htp.exists
  /\ htp_call.seq < MaxProblemCalls
  /\ LET p == [NoProblem EXCEPT !.mesh = mesh, !.subdomains = subdomains,
                                !.species = species]
         e == TemperatureSetter(p, temperature)
     IN /\ htp' = IF e # NoExc THEN NoProblem
                  ELSE [p EXCEPT !.exists = TRUE,
                                 !.temperature = temperature,
                                 !.sources = sources,
                                 !.boundary_conditions = boundary_conditions]
        /\ htp_call' = HTPCall("init", e)
  /\ UNCHANGED <<xvars, avars, svars, tvars, dvars, pvars>>

\* my_model.mesh = value
HTPSetMesh(value) ==
  /\ htp.exists
  /\ htp_call.seq < MaxProblemCalls
  /\ htp' = [htp EXCEPT !.mesh = value]
  /\ htp_call' = HTPCall("set_mesh", NoExc)
  /\ UNCHANGED <<xvars, avars, svars, tvars, dvars, pvars>>

\* my_model.subdomains = value
HTPSetSubdomains(value) ==
  /\ htp.exists
  /\ htp_call.seq < MaxProblemCalls
  /\ htp' = [htp EXCEPT !.subdomains = value]
  /\ htp_call' = HTPCall("set_subdomains", NoExc)
  /\ UNCHANGED <<xvars, avars, svars, tvars, dvars, pvars>>

\* my_model.species = value
HTPSetSpecies(value) ==
  /\ htp.exists
  /\ htp_call.seq < MaxProblemCalls
  /\ htp' = [htp EXCEPT !.species = value]
  /\ htp_call' = HTPCall("set_species", NoExc)
  /\ UNCHANGED <<xvars, avars, svars, tvars, dvars, pvars>>

\* my_model.temperature = value
HTPSetTemperature(value) ==
  /\ htp.exists
  /\ htp_call.seq < MaxProblemCalls
  /\ LET e == TemperatureSetter(htp, value)
     IN /\ htp' = IF e # NoExc THEN htp ELSE [htp EXCEPT !.temperature = value]
        /\ htp_call' = HTPCall("set_temperature", e)
  /\ UNCHANGED <<xvars, avars, svars, tvars, dvars, pvars>>

\* my_model.sources = value
HTPSetSources(value) ==
  /\ htp.exists
  /\ htp_call.seq < MaxProblemCalls
  /\ htp' = [htp EXCEPT !.sources = value]
  /\ htp_call' = HTPCall("set_sources", NoExc)
  /\ UNCHANGED <<xvars, avars, svars, tvars, dvars, pvars>>

\* my_model.boundary_conditions = value
HTPSetBoundaryConditions(value) ==
  /\ htp.exists
  /\ htp_call.seq < MaxProblemCalls
  /\ htp' = [htp EXCEPT !.boundary_conditions = value]
  /\ htp_call' = HTPCall("set_boundary_conditions", NoExc)
  /\ UNCHANGED <<xvars, avars, svars, tvars, dvars, pvars>>

\* my_model.initialise()
HTPInitialise ==
  /\ htp.exists
  /\ htp_call.seq < MaxProblemCalls
  /\ LET r == Initialise(htp)
     IN /\ htp' = r.p
        /\ htp_call' = HTPCall("initialise", r.raised)
  /\ UNCHANGED <<xvars, avars, svars, tvars, dvars, pvars>>

\* my_model.define_function_space()
HTPDefineFunctionSpace ==
  /\ htp.exists
  /\ htp_call.seq < MaxProblemCalls
  /\ LET r == DefineFunctionSpace(htp)
     IN /\ htp' = r.p
        /\ htp_call' = HTPCall("define_function_space", r.raised)
  /\ UNCHANGED <<xvars, avars, svars, tvars, dvars, pvars>>

\* my_model.define_markers_and_measures()
HTPDefineMarkersAndMeasures ==
  /\ htp.exists
  /\ htp_call.seq < MaxProblemCalls
  /\ \E err \in MissingFunctionSpaceErrors :
       LET r == DefineMarkersAndMeasures(htp, err)
       IN /\ htp' = r.p
          /\ htp_call' = HTPCall("define_markers_and_measures", r.raised)
  /\ UNCHANGED <<xvars, avars, svars, tvars, dvars, pvars>>

\* my_model.assign_functions_to_species()
HTPAssignFunctionsToSpecies ==
  /\ htp.exists
  /\ htp_call.seq < MaxProblemCalls
  /\ \E err \in MissingFunctionSpaceErrors :
       LET r == AssignFunctionsToSpecies(htp, err)
       IN /\ htp' = r.p
          /\ htp_call' = HTPCall("assign_functions_to_species", r.raised)
  /\ UNCHANGED <<xvars, avars, svars, tvars, dvars, pvars>>

\* my_model.create_formulation()
HTPCreateFormulation ==
  /\ htp.exists
  /\ htp_call.seq < MaxProblemCalls
  /\ \E err \in MissingFunctionErrors :
       LET r == CreateFormulation(htp, err)
       IN /\ htp' = r.p
          /\ htp_call' = HTPCall("create_formulation", r.raised)
  /\ UNCHANGED <<xvars, avars, svars, tvars, dvars, pvars>>

HTPIdle == htp = NoProblem /\ htp_call = NoHTPCall

HTPInit == HTPIdle

\* (the constructor without arguments is the call with a mesh of None, no
\* subdomains, no species and a temperature of None)
HTPNext ==
  \/ \E m \in HTPMeshInputs, sd \in HTPSubdomainInputs, sp \in HTPSpeciesInputs,
        T \in HTPTemperatureInputs :
       HTPConstruct(m, sd, sp, T, <<>>, <<>>)
  \/ \E m \in HTPMeshInputs : HTPSetMesh(m)
  \/ \E sd \in HTPSubdomainInputs : HTPSetSubdomains(sd)
  \/ \E sp \in HTPSpeciesInputs : HTPSetSpecies(sp)
  \/ \E T \in HTPTemperatureInputs : HTPSetTemperature(T)
  \/ \E s \in HTPSourceInputs : HTPSetSources(s)
  \/ \E b \in HTPBoundaryConditionInputs : HTPSetBoundaryConditions(b)
  \/ HTPInitialise
  \/ HTPDefineFunctionSpace
  \/ HTPDefineMarkersAndMeasures
  \/ HTPAssignFunctionsToSpecies
  \/ HTPCreateFormulation

(***************************************************************************)
(* Specifications: one object at a time, the others untouched.             *)
(***************************************************************************)
\* the objects the specification at hand does not follow
NewIdle == DQIdle /\ PPIdle /\ HTPIdle
OldIdle == XDMFInit /\ AdvInit /\ SQIdle /\ TXTIdle

Init == XDMFInit /\ AdvInit /\ SQIdle /\ TXTIdle /\ NewIdle

SpecXDMF == Init /\ [][XDMFNext]_vars

SpecAdv == Init /\ [][AdvNext]_vars

InitSQ == XDMFInit /\ AdvInit /\ SQInit /\ TXTIdle /\ NewIdle

SpecSQ == InitSQ /\ [][SQNext]_vars

InitTXT == XDMFInit /\ AdvInit /\ SQIdle /\ TXTInit /\ NewIdle

InitDQ == OldIdle /\ DQInit /\ PPIdle /\ HTPIdle

SpecDQ == InitDQ /\ [][DQNext]_vars

InitPP == OldIdle /\ DQIdle /\ PPInit /\ HTPIdle

SpecPP == InitPP /\ [][PPNext]_vars

InitHTP == OldIdle /\ DQIdle /\ PPIdle /\ HTPInit

SpecHTP == InitHTP /\ [][HTPNext]_vars

SpecTXT == InitTXT /\ [][TXTNext]_vars

(***************************************************************************)
(* Properties of XDMFExport                                                *)
(***************************************************************************)
\* the value given as field in the last constructor call or assignment
XDMFFieldArg == xdmf_call.args[Len(xdmf_call.args)]

\* the last call was a constructor call with a usable file name
XDMFInitCall ==
  /\ xdmf_call.op = "init"
  /\ xdmf_call.args[1].type = "str"
  /\ EndsWith(xdmf_call.args[1].name, ".xdmf")

\* a Species, or a list whose elements are all Species
IsSpeciesOrListOfSpecies(v) ==
  \/ v.type = "Species"
  \/ v.type = "list" /\ \A i \in 1..Len(v.elems) : v.elems[i].type = "Species"

\* the number of meshes in what a writer received
MeshCount(out) == Cardinality({i \in 1..Len(out) : out[i].kind = "mesh"})

\* this step is a call of write
XDMFWriteStep ==
  /\ xdmf_call'.seq = xdmf_call.seq + 1
  /\ xdmf_call'.op = "write"

\* C1 (as amended): for an export whose field list is not empty, and after
\* define_writer, every write(t) returns normally and appends to the writer
\* the mesh of the first field (only if no mesh was written before) and
\* then the post_processing_solution of each field, in list order, with t;
\* the writer holds at most one mesh, and it is the first thing written.
C1_MeshOnceThenFunctions ==
  /\ [][ (XDMFWriteStep /\ xdmf.writer = 1 /\ Len(xdmf.field.elems) > 0) =>
           /\ xdmf_call'.raised = NoExc
           /\ xdmf_out' =
                xdmf_out
                \o (IF MeshCount(xdmf_out) = 0
                    THEN <<[kind |-> "mesh", of |-> xdmf.field.elems[1].name, t |-> -1]>>
                    ELSE <<>>)
                \o [i \in 1..Len(xdmf.field.elems) |->
                      [kind |-> "function", of |-> xdmf.field.elems[i].name,
                       t |-> xdmf_call'.t]] ]_vars
  /\ [](xdmf.writer = 1 =>
          /\ MeshCount(xdmf_out) <= 1
          /\ xdmf_out # <<>> => xdmf_out[1].kind = "mesh")

\* two calls of write on a two-species export: mesh, then H and D twice
C1_Witness ==
  /\ xdmf.writer = 1
  /\ xdmf_call.op = "write"
  /\ Len(xdmf_out) = 5
  /\ xdmf_out[1].kind = "mesh"
  /\ xdmf_out[5].kind = "function"

\* C1 (as claimed): after define_writer, a call of write has written the
\* mesh exactly once, first, whatever the field list is.
C1_Original ==
  (xdmf_call.op = "write" /\ xdmf.writer = 1) =>
    /\ xdmf_call.raised = NoExc
    /\ MeshCount(xdmf_out) = 1
    /\ xdmf_out[1].kind = "mesh"

\* C2: the field attribute is always a list; a constructor call or an
\* assignment with a Species s stores [s], and one with a list of Species
\* stores that list.
C2_FieldIsAlwaysList ==
  /\ xdmf.exists => xdmf.field.type = "list"
  /\ ((XDMFInitCall \/ xdmf_call.op = "set_field")
       /\ IsSpeciesOrListOfSpecies(XDMFFieldArg)) =>
        /\ xdmf_call.raised = NoExc
        /\ xdmf.exists
        /\ xdmf.field = IF XDMFFieldArg.type = "Species"
                        THEN ListV(<<XDMFFieldArg>>)
                        ELSE XDMFFieldArg

\* a single Species was assigned to an existing export
C2_Witness ==
  /\ xdmf_call.op = "set_field"
  /\ XDMFFieldArg = SpeciesV("D")
  /\ xdmf.field = ListV(<<SpeciesV("D")>>)

\* C3: a constructor call whose field is neither a Species nor a list of
\* Species raises TypeError, and no export and no field value exist after.
C3_InvalidFieldRaisesTypeError ==
  (XDMFInitCall /\ ~IsSpeciesOrListOfSpecies(XDMFFieldArg)) =>
    /\ xdmf_call.raised.type = "TypeError"
    /\ ~xdmf.exists
    /\ xdmf.field = Unset

\* the constructor was called with [Species("H"), 1]
C3_Witness ==
  /\ XDMFInitCall
  /\ XDMFFieldArg = ListV(<<SpeciesV("H"), IntV("1")>>)
  /\ xdmf_call.raised.type = "TypeError"

\* C4 (as claimed): a constructor call whose field is a string naming a
\* species returns an export.
C4_StringFieldAccepted ==
  (XDMFInitCall /\ XDMFFieldArg = StrV("H")) =>
    /\ xdmf_call.raised = NoExc
    /\ xdmf.exists

(***************************************************************************)
(* Properties of AdvectionTerm                                             *)
(***************************************************************************)
\* the last call was AdvectionTerm(velocity=None, subdomain=<a volume
\* subdomain>, species=...), as the tests of the species setter call it
AdvInitCallForSpecies ==
  /\ adv_call.op = "init"
  /\ adv_call.args[1].type = "NoneType"
  /\ adv_call.args[2].type = "VolumeSubdomain"

\* C5 (as claimed): after a constructor call with species a Species or a
\* list of Species, the species attribute is a list.
C5_SpeciesIsList ==
  (AdvInitCallForSpecies /\ IsSpeciesOrListOfSpecies(adv_call.args[3])) =>
    /\ adv_call.raised = NoExc
    /\ adv.exists
    /\ adv.species.type = "list"

\* C6 (as claimed): a constructor call with species neither a Species nor a
\* list of Species raises TypeError 'elements of species must be of type
\* festim.Species not <type of the given value>'.
C6_SpeciesTypeErrorMessage ==
  (AdvInitCallForSpecies /\ ~IsSpeciesOrListOfSpecies(adv_call.args[3])) =>
    adv_call.raised =
      [type |-> "TypeError",
       msg |-> "elements of species must be of type festim.Species not "
               \o TypeRepr(adv_call.args[3])]

\* C7 (as claimed): a constructor call with a velocity that is not None, not
\* a fem.Function and not callable raises TypeError 'velocity must be a
\* fem.Function, or callable not <type of the given value>'.
C7_VelocityTypeErrorMessage ==
  (/\ adv_call.op = "init"
   /\ adv_call.args[1].type \notin {"NoneType", "Function", "function", "partial"}) =>
    adv_call.raised =
      [type |-> "TypeError",
       msg |-> "velocity must be a fem.Function, or callable not "
               \o TypeRepr(adv_call.args[1])]

\* the value given as subdomain in the last constructor call or assignment
AdvSubdomainArg ==
  IF adv_call.op = "init" THEN adv_call.args[2] ELSE adv_call.args[1]

\* the last call reached the subdomain setter: an assignment, or a
\* constructor call whose velocity was accepted
AdvSubdomainCall ==
  \/ adv_call.op = "set_subdomain"
  \/ /\ adv_call.op = "init"
     /\ \/ adv_call.args[1].type \in {"NoneType", "Function"}
        \/ adv_call.args[1] = [type |-> "function", name |-> "", elems |-> <<StrV("t")>>]

\* this step is an assignment to subdomain
AdvSetSubdomainStep ==
  /\ adv_call'.seq = adv_call.seq + 1
  /\ adv_call'.op = "set_subdomain"

\* C8: the subdomain setter stores None and any VolumeSubdomain as given (an
\* assignment returns normally; a constructor call that returns has stored
\* it, and does not raise the subdomain error); any other value raises
\* TypeError 'Subdomain must be a festim.Subdomain object, not <type>' and
\* stores nothing: a constructor call gives no object, an assignment leaves
\* the object as it was.
C8_SubdomainSetter ==
  /\ [](AdvSubdomainCall =>
          IF AdvSubdomainArg.type \in {"NoneType", "VolumeSubdomain"}
          THEN /\ adv_call.op = "set_subdomain" => adv_call.raised = NoExc
               /\ adv_call.raised = NoExc => adv.subdomain = AdvSubdomainArg
               /\ adv_call.raised.msg #
                    "Subdomain must be a festim.Subdomain object, not "
                    \o TypeRepr(AdvSubdomainArg)
          ELSE /\ adv_call.raised =
                    [type |-> "TypeError",
                     msg |-> "Subdomain must be a festim.Subdomain object, not "
                             \o TypeRepr(AdvSubdomainArg)]
               /\ adv_call.op = "init" => ~adv.exists /\ adv.subdomain = Unset)
  /\ [][ (AdvSetSubdomainStep /\ adv_call'.raised # NoExc) => adv' = adv ]_vars

\* a SurfaceSubdomain was assigned to a term that holds a VolumeSubdomain
C8_Witness ==
  /\ adv_call.op = "set_subdomain"
  /\ adv_call.args[1].type = "SurfaceSubdomain"
  /\ adv_call.raised.type = "TypeError"
  /\ adv.exists
  /\ adv.subdomain.type = "VolumeSubdomain"

(***************************************************************************)
(* Properties of SurfaceQuantity                                           *)
(***************************************************************************)
\* this step is a call of write
SQWriteStep ==
  /\ sq_call'.seq = sq_call.seq + 1
  /\ sq_call'.op = "write"

\* C9 (as claimed): a call of write on an object whose filename is set
\* creates the file with the header row ['t(s)', title] if it does not exist
\* yet, and appends the row [t, value]; a file that exists already is
\* appended to, not overwritten.
C9_ExistingFileAppended ==
  [][ (SQWriteStep /\ sq.filename.type = "str" /\ sq_call'.raised = NoExc) =>
        LET before == sq_file.files[sq.filename.name]
            after == sq_file'.files[sq.filename.name]
            header == <<[s |-> "t(s)", n |-> -1], [s |-> sq'.title.name, n |-> -1]>>
            row == <<[s |-> "", n |-> sq_call'.t], sq.value>>
        IN /\ after.exists
           /\ after.rows = IF before.exists
                           THEN Append(before.rows, row)
                           ELSE <<header, row>> ]_vars

(***************************************************************************)
(* Properties of TXTExport                                                 *)
(***************************************************************************)
\* this step is a call of write
TXTWriteStep ==
  /\ txt_call'.seq = txt_call.seq + 1
  /\ txt_call'.op = "write"

\* the call of write of this step is made at the last export time: the run
\* is steady, or the time is close to the final time (no times given) or to
\* the last of the times given
TXTAtLastExportTime ==
  \/ txt_call'.args[1] = FinalNone
  \/ txt.times.none /\ IsClose(txt_call'.t, txt_call'.args[1])
  \/ /\ ~txt.times.none
     /\ IsClose(txt_call'.t, txt.times.list[Len(txt.times.list)])

\* this step has written the file with the header and every column so far
TXTFileWritten ==
  /\ txt_file'.saves = txt_file.saves + 1
  /\ txt_file'.files[txt.filename.name] =
       [exists |-> TRUE, header |-> txt'.header, data |-> txt'.data]
  /\ Len(txt'.data) = Len(txt.data) + 1

\* this step has written no file
TXTNoFileWritten ==
  /\ txt_file'.saves = txt_file.saves
  /\ txt_file'.files = txt_file.files

\* C10 (as claimed): at an export time, an initialised export with
\* write_at_last True writes the file exactly when the time is the last
\* export time, and one with write_at_last False writes it at every export
\* time; the file written holds the columns of every export time so far.
C10_WriteAtLast ==
  [][ (/\ TXTWriteStep
       /\ txt.header # <<>>
       /\ txt.filename.type = "str"
       /\ IsItTimeToExport(txt, txt_call'.t)) =>
        IF txt.write_at_last
        THEN IF TXTAtLastExportTime
             THEN TXTFileWritten
             ELSE TXTNoFileWritten
        ELSE TXTFileWritten ]_vars

\* the time of the call of write of this step is close to one of the times
\* given to the constructor
TXTCloseToAGivenTime ==
  \E i \in 1..Len(txt.times.list) : IsClose(txt.times.list[i], txt_call'.t)

\* this step has added one label at the end of the header and one column at
\* the end of the data, with as many rows as the x column
TXTColumnAdded ==
  /\ Len(txt'.header) = Len(txt.header) + 1
  /\ Len(txt'.data) = Len(txt.data) + 1
  /\ \A k \in 1..Len(txt.header) : txt'.header[k] = txt.header[k]
  /\ \A k \in 1..Len(txt.data) : txt'.data[k] = txt.data[k]
  /\ Len(txt'.data[Len(txt'.data)]) = Len(txt.data[1])

\* the label this step should add: t=steady, or the time of the call
TXTLabelOfCall ==
  IF txt_call'.args[1] = FinalNone THEN SteadyLabel
  ELSE TimeLabel(txt.header_format, txt_call'.t)

\* C11 (as claimed): with times given, a call of write on an initialised
\* export adds a column and a label exactly when its time is close to one of
\* the times, and changes neither the object nor the files otherwise; with
\* no times given, every call adds a column and a label.
C11_ExportAtGivenTimes ==
  [][ (/\ TXTWriteStep
       /\ txt.header # <<>>
       /\ txt.filename.type = "str") =>
        IF txt.times.none \/ TXTCloseToAGivenTime
        THEN TXTColumnAdded
        ELSE txt' = txt /\ txt_file' = txt_file ]_vars

\* this step is an assignment of filename
TXTSetFilenameStep ==
  /\ txt_call'.seq = txt_call.seq + 1
  /\ txt_call'.op = "set_filename"

\* this step is a call of the constructor
TXTInitStep ==
  /\ txt_call'.seq = txt_call.seq + 1
  /\ txt_call'.op = "init"

\* what an assignment of value v to filename must do, the stored name being
\* old before and new after
TXTFilenameOutcome(v, raised, old, new) ==
  IF v.type = "NoneType" \/ (v.type = "str" /\ EndsWith(v.name, ".txt"))
  THEN raised = NoExc /\ new = v
  ELSE IF v.type # "str"
       THEN raised.type = "TypeError" /\ new = old
       ELSE raised.type = "ValueError" /\ new = old

\* C15: assigning filename, directly or in the constructor, raises TypeError
\* for a value that is neither None nor a string and ValueError for a string
\* that does not end with .txt, and then leaves the stored name as it was;
\* None and a string ending with .txt are stored as given.
C15_FilenameSetter ==
  [][ /\ TXTSetFilenameStep =>
          TXTFilenameOutcome(txt_call'.args[1], txt_call'.raised,
                             txt.filename, txt'.filename)
      /\ TXTInitStep =>
          TXTFilenameOutcome(txt_call'.args[2], txt_call'.raised,
                             txt.filename, txt'.filename) ]_vars

\* C15 witness: an assignment of a string without the ending was refused
\* and the name stored before is still there
C15_Witness ==
  /\ txt_call.op = "set_filename"
  /\ txt_call.args[1] = StrV("out.csv")
  /\ txt_call.raised.type = "ValueError"
  /\ txt.filename = StrV("results/out.txt")

\* the header has one label per column, the first one x, and every column
\* has the rows of the x column
TXTOneLabelPerColumn ==
  /\ Len(txt.header) = Len(txt.data)
  /\ txt.header[1] = XLabel
  /\ \A k \in 1..Len(txt.data) : Len(txt.data[k]) = Len(txt.data[1])

\* a call of write adds one label and one column, or none of the two
TXTWriteAddsBoth ==
  [][ (TXTWriteStep /\ txt.header # <<>>) =>
        \/ txt'.header = txt.header /\ txt'.data = txt.data
        \/ /\ TXTColumnAdded
           /\ txt'.header[Len(txt'.header)] = TXTLabelOfCall ]_vars

\* C20 (as amended): once initialised, the header has one label per column
\* of data (x, then one per export in export order, all columns with the
\* rows of the x column), and when no time label holds a comma the number
\* of comma-separated pieces of the header is the number of columns.
C20_HeaderMatchesData ==
  /\ [](txt.header # <<>> =>
          /\ TXTOneLabelPerColumn
          /\ (\A k \in 1..Len(txt.header) : LabelCommas(txt.header[k]) = 0) =>
               HeaderPieces(txt.header) = Len(txt.data))
  /\ TXTWriteAddsBoth

\* C20 witness: two exports after an initialisation that keeps three of the
\* four dofs
C20_Witness ==
  /\ txt.V = "DG"
  /\ Len(txt.header) = 3
  /\ Len(txt.data) = 3
  /\ Len(txt.data[1]) = 3
  /\ txt.header_format = ".2e"

\* C20 (as claimed): once initialised, the number of comma-separated labels
\* of the header is the number of columns of data.
C20_Original ==
  txt.header # <<>> => HeaderPieces(txt.header) = Len(txt.data)

(***************************************************************************)
(* Properties of the derived quantities                                    *)
(***************************************************************************)
\* the entries of the quantities of the dict
DQQuantityEntries ==
  UNION { {dq.config[i].entries[k] : k \in 1..Len(dq.config[i].entries)} :
            i \in {j \in 1..Len(dq.config) : dq.config[j].key \in QuantityTypes} }

\* a field given as a str that is not the name of a field: neither solute,
\* retention nor T, nor the digits of a trap number of a simulation with
\* traps
DQUnknownString(field) ==
  /\ field.kind = "str"
  /\ field.s \notin {"solute", "retention", "T"}
  /\ ~(IsDigit(field.s) /\ dq.ntraps >= 1 /\ IntOf(field.s) <= dq.ntraps)

\* the exceptions the dict calls for: ValueError for an unknown key,
\* KeyError for an entry without field, ValueError for an int field outside
\* 0..number of traps, (with_strings) ValueError for an unknown str field,
\* KeyError for an entry with neither surfaces nor volumes
DQFaults(with_strings) ==
  (IF \E i \in 1..Len(dq.config) :
        dq.config[i].key \notin {"surface_flux", "average_volume", "average_surface",
                                 "maximum_volume", "minimum_volume", "total_volume",
                                 "total_surface", "file", "folder",
                                 "nb_iterations_between_compute",
                                 "nb_iterations_between_exports"}
   THEN {"ValueError"} ELSE {})
  \cup (IF \E e \in DQQuantityEntries : e.field.kind = "missing"
        THEN {"KeyError"} ELSE {})
  \cup (IF \E e \in DQQuantityEntries :
             e.field.kind = "int" /\ ~(0 <= e.field.n /\ e.field.n <= dq.ntraps)
        THEN {"ValueError"} ELSE {})
  \cup (IF with_strings /\ \E e \in DQQuantityEntries : DQUnknownString(e.field)
        THEN {"ValueError"} ELSE {})
  \cup (IF \E e \in DQQuantityEntries : ~e.has_surfaces /\ ~e.has_volumes
        THEN {"KeyError"} ELSE {})

\* this step is a call of the function op
DQStep(op) ==
  /\ dq_call'.seq = dq_call.seq + 1
  /\ dq_call'.op = op

\* a call of check_keys_derived_quantities raises one of the exceptions the
\* dict calls for, returns when it calls for none, and leaves the dict alone
DQCheckKeysRaises(with_strings) ==
  DQStep("check_keys") =>
    /\ dq' = dq
    /\ IF DQFaults(with_strings) = {}
       THEN dq_call'.raised = NoExc
       ELSE dq_call'.raised.type \in DQFaults(with_strings)

\* C13 (as amended): check_keys_derived_quantities raises ValueError for an
\* unknown key, KeyError for an entry without field, ValueError for an int
\* field outside 0..number of traps and for a str field that names no field,
\* KeyError for an entry with neither surfaces nor volumes; otherwise it
\* returns; it never modifies the parameters.
C13_CheckKeys == [][DQCheckKeysRaises(TRUE)]_vars

\* C13 witness: the check has refused a dict whose only fault is a field
\* given as a str that names no field
C13_Witness ==
  /\ dq_call.op = "check_keys"
  /\ dq_call.raised = Exc("ValueError", "Unknown field: foo")
  /\ DQFaults(FALSE) = {}

\* C13 (as claimed): the same without the case of the str field, so that a
\* dict with no other fault is accepted.
C13_Original == [][DQCheckKeysRaises(FALSE)]_vars

\* the dict is one that check_keys_derived_quantities accepts
DQAccepted ==
  dq.configured /\ CheckKeysDerivedQuantities(dq.config, dq.ntraps) = NoExc

RECURSIVE Flatten(_)
\* the sequences of a sequence, joined
Flatten(ss) == IF Len(ss) = 0 THEN <<>> ELSE Head(ss) \o Flatten(Tail(ss))

\* the order of the quantities in the header and in a row
DQClaimedOrder ==
  <<"surface_flux", "average_volume", "minimum_volume", "maximum_volume",
    "total_volume", "total_surface">>

\* one column per entry and surface or volume, quantity by quantity
DQExpectedColumns ==
  Flatten([j \in 1..Len(DQClaimedOrder) |->
    LET q == DQClaimedOrder[j]
        entries == IF \E i \in 1..Len(dq.config) : dq.config[i].key = q
                   THEN dq.config[CHOOSE i \in 1..Len(dq.config) :
                                    dq.config[i].key = q].entries
                   ELSE <<>>
    IN Flatten([i \in 1..Len(entries) |->
         LET regions == IF q \in {"surface_flux", "total_surface"}
                        THEN entries[i].surfaces ELSE entries[i].volumes
         IN [k \in 1..Len(regions) |->
               [quantity |-> q, field |-> entries[i].field.s, region |-> regions[k]]]])])

\* the quantity a label of the header stands for
DQLabelAsQuantity(label) ==
  [quantity |->
     CASE label.prefix = "Flux" -> "surface_flux"
       [] label.prefix = "Average" -> "average_volume"
       [] label.prefix = "Minimum" -> "minimum_volume"
       [] label.prefix = "Maximum" -> "maximum_volume"
       [] label.prefix = "Total" /\ label.kind = "volume" -> "total_volume"
       [] label.prefix = "Total" /\ label.kind = "surface" -> "total_surface"
       [] OTHER -> "t",
   field |-> label.field, region |-> label.region]

\* C16 (as claimed): for every dict that is accepted, the header is 't(s)'
\* followed by one column per entry and surface or volume in the order
\* surface_flux, average_volume, minimum_volume, maximum_volume,
\* total_volume, total_surface, and derived_quantities returns its values in
\* that same order.
C16_RowMatchesHeader ==
  /\ (DQAccepted /\ dq_call.op = "header") =>
       /\ dq_call.raised = NoExc
       /\ Len(dq_call.val) = Len(DQExpectedColumns) + 1
       /\ dq_call.val[1] = TimeColumn
       /\ \A k \in 1..Len(DQExpectedColumns) :
            DQLabelAsQuantity(dq_call.val[k + 1]) = DQExpectedColumns[k]
  /\ (DQAccepted /\ dq_call.op = "derived_quantities") =>
       /\ dq_call.raised = NoExc
       /\ dq_call.val = DQExpectedColumns

\* C17 (as claimed): derived_quantities goes through every dict that
\* check_keys_derived_quantities accepts without a failed lookup (KeyError).
C17_AcceptedIsComputed ==
  [][ (DQStep("derived_quantities") /\ DQAccepted) =>
        dq_call'.raised.type # "KeyError" ]_vars

(***************************************************************************)
(* Properties of run_post_processing                                       *)
(***************************************************************************)
\* n is a multiple of m
IsMultiple(n, m) == \E k \in 0..n : k * m = n

\* C12: is_export_derived_quantities is True for a steady-state simulation;
\* for a transient one whose nb_iterations_between_export_derived_quantities
\* is None it is True exactly when t >= final_time; otherwise it is True
\* exactly when nb_iterations is a multiple of that number.
C12_IsExport ==
  IsExportDerivedQuantities(pp) =
    IF ~pp.transient THEN TRUE
    ELSE IF pp.nb_iterations_between_export_derived_quantities = NbNone
         THEN pp.t >= pp.final_time
         ELSE IsMultiple(pp.nb_iterations,
                         pp.nb_iterations_between_export_derived_quantities)

\* C12 witness: a transient run that exports at the end has reached its
\* final time, and the rows have been written
C12_Witness ==
  /\ pp_call.seq >= 1
  /\ pp.configured
  /\ pp.transient
  /\ pp.nb_iterations_between_export_derived_quantities = NbNone
  /\ pp.t >= pp.final_time
  /\ pp.csv.writes = 1

\* this step is a call of run_post_processing
PPStep == pp_call'.seq = pp_call.seq + 1

\* the rows stored before this step are still there, unchanged and in place
PPRowsKept ==
  /\ Len(pp'.derived_quantities_global) >= Len(pp.derived_quantities_global)
  /\ \A k \in 1..Len(pp.derived_quantities_global) :
       pp'.derived_quantities_global[k] = pp.derived_quantities_global[k]

\* C18: with derived_quantities configured, a call of run_post_processing
\* never changes or removes a stored row; a call that returns appends one
\* row, which starts with the time t, when nb_iterations is a multiple of
\* nb_iterations_between_compute_derived_quantities and none otherwise, and
\* writes the rows to CSV exactly when is_export_derived_quantities is True.
C18_RowsOnlyGrow ==
  [][ (PPStep /\ pp.configured) =>
        /\ PPRowsKept
        /\ pp_call'.raised = NoExc =>
             /\ IF IsMultiple(pp'.nb_iterations,
                              pp.nb_iterations_between_compute_derived_quantities)
                THEN /\ Len(pp'.derived_quantities_global) =
                          Len(pp.derived_quantities_global) + 1
                     /\ pp'.derived_quantities_global[
                          Len(pp'.derived_quantities_global)][1] = TimeValue(pp'.t)
                ELSE pp'.derived_quantities_global = pp.derived_quantities_global
             /\ IF IsExportDerivedQuantities(pp')
                THEN /\ pp'.csv.writes = pp.csv.writes + 1
                     /\ pp'.csv.rows = pp'.derived_quantities_global
                ELSE pp'.csv = pp.csv ]_vars

\* C18 witness: three calls have returned, two of them have stored a row
\* and the rows have been written
C18_Witness ==
  /\ pp.configured
  /\ pp_call.seq = 3
  /\ pp_call.raised = NoExc
  /\ Len(pp.derived_quantities_global) = 2
  /\ pp.csv.writes >= 1
  /\ pp.csv.rows = pp.derived_quantities_global

\* the XDMF exports of the simulation
PPXDMFExports ==
  {i \in 1..Len(pp.exports) : pp.exports[i].class = "XDMFExport"}

\* C19: a call of run_post_processing that returns writes an XDMFExport
\* exactly when nb_iterations is a multiple of nb_iterations_between_exports
\* and last_time_step_only is False or t >= final_time; append is True after
\* a write and never goes back to False, so that only the first write of an
\* export can be made with append False.
C19_XDMFExportWritten ==
  /\ [][ PPStep =>
           \A i \in PPXDMFExports :
             /\ pp.exports[i].append => pp'.exports[i].append
             /\ pp_call'.raised = NoExc =>
                  IF /\ IsMultiple(pp'.nb_iterations, pp.nb_iterations_between_exports)
                     /\ (~pp.exports[i].last_time_step_only \/ pp'.t >= pp.final_time)
                  THEN /\ pp'.exports[i].writes =
                            Append(pp.exports[i].writes,
                                   [t |-> pp'.t, append |-> pp.exports[i].append])
                       /\ pp'.exports[i].append
                  ELSE pp'.exports[i] = pp.exports[i] ]_vars
  /\ [](\A i \in PPXDMFExports :
          \A k \in 2..Len(pp.exports[i].writes) : pp.exports[i].writes[k].append)

\* C19 witness: an export of the last time step only has been written
\* twice, the first time with append False and the second with append True
C19_Witness ==
  \E i \in PPXDMFExports :
    /\ pp.exports[i].last_time_step_only
    /\ Len(pp.exports[i].writes) = 2
    /\ ~pp.exports[i].writes[1].append
    /\ pp.exports[i].writes[2].append
    /\ pp.exports[i].append

(***************************************************************************)
(* Properties of HydrogenTransportProblem                                  *)
(***************************************************************************)
\* this step is a call of initialise
HTPInitialiseStep ==
  /\ htp_call'.seq = htp_call.seq + 1
  /\ htp_call'.op = "initialise"

\* the problem holds the values of the usage example: a mesh, subdomains,
\* the two species H and Trap, a temperature, one source and one boundary
\* condition
HTPUsageExample ==
  /\ htp.exists
  /\ htp.mesh.type = "Mesh"
  /\ Len(htp.subdomains) > 0
  /\ Len(htp.species) = 2
  /\ htp.species[1].name = "H"
  /\ htp.species[2].name = "Trap"
  /\ htp.temperature = 500
  /\ Len(htp.sources) = 1
  /\ Len(htp.boundary_conditions) = 1

\* C14 (as claimed): initialise() on a problem that holds the values of the
\* usage example, two species among them, returns without error and leaves
\* the function space, the markers and measures and the formulation defined.
C14_UsageExampleInitialises ==
  [][ (HTPInitialiseStep /\ HTPUsageExample) =>
        /\ htp_call'.raised = NoExc
        /\ htp'.function_space
        /\ htp'.measures
        /\ htp'.has_formulation ]_vars

\* in this step define_markers_and_measures runs and returns: it is called
\* on its own and raises nothing, or initialise is called and
\* define_function_space, which runs first, has returned (the problem has a
\* mesh)
HTPMarkersStep ==
  \/ /\ HTPInitialiseStep
     /\ htp.mesh.type = "Mesh"
  \/ /\ htp_call'.seq = htp_call.seq + 1
     /\ htp_call'.op = "define_markers_and_measures"
     /\ htp_call'.raised = NoExc

\* the positions in subdomains of the subdomains of one class
HTPIndicesOf(class) ==
  {i \in 1..Len(htp.subdomains) : htp.subdomains[i].class = class}

\* the positions in subdomains of the volume subdomains that contain cell c
HTPContaining(c) ==
  {i \in HTPIndicesOf("VolumeSubdomain1D") :
     c \in LocateSubdomainEntities(htp.subdomains[i], htp.mesh)}

\* the largest member of a non-empty set of positions
HTPLast(S) == CHOOSE i \in S : \A j \in S : j <= i

\* the volume tag the claim gives to cell c
HTPExpectedVolumeTag(c) ==
  IF HTPContaining(c) = {} THEN 0
  ELSE htp.subdomains[HTPLast(HTPContaining(c))].id

\* the position in subdomains of the k-th surface subdomain
HTPSurfaceAt(k) ==
  CHOOSE i \in HTPIndicesOf("SurfaceSubdomain1D") :
    Cardinality({j \in HTPIndicesOf("SurfaceSubdomain1D") : j <= i}) = k

\* C21: after define_markers_and_measures has run and returned, called on its
\* own or by initialise,
\* the volume tags hold one tag per cell of the mesh, the id of the last
\* VolumeSubdomain1D of subdomains that contains the cell, or 0 when none
\* contains it; and the facet tags hold one entry per SurfaceSubdomain1D of
\* subdomains, in subdomains order, at the dof of that subdomain and tagged
\* with its id.
C21_MarkersTagSubdomains ==
  [][ HTPMarkersStep =>
        /\ htp'.measures
        /\ DOMAIN htp'.volume_meshtags = 1..NumCells(htp.mesh)
        /\ \A c \in 1..NumCells(htp.mesh) :
             htp'.volume_meshtags[c] = HTPExpectedVolumeTag(c)
        /\ Len(htp'.facet_meshtags) =
             Cardinality(HTPIndicesOf("SurfaceSubdomain1D"))
        /\ \A k \in 1..Len(htp'.facet_meshtags) :
             /\ htp'.facet_meshtags[k].tag = htp.subdomains[HTPSurfaceAt(k)].id
             /\ htp'.facet_meshtags[k].entity =
                  LocateDof(htp.subdomains[HTPSurfaceAt(k)], htp.mesh) ]_vars

\* C21 witness: initialise has run on a problem whose second cell lies in two
\* volume subdomains and carries the id of the later one, whose first cell
\* lies in one only, and whose two surfaces are tagged in subdomains order
\* (the right surface first)
C21_Witness ==
  /\ htp_call.op = "initialise"
  /\ htp.measures
  /\ Cardinality(HTPContaining(2)) = 2
  /\ Cardinality(HTPContaining(1)) = 1
  /\ htp.volume_meshtags = <<1, 2>>
  /\ Len(htp.facet_meshtags) = 2
  /\ htp.facet_meshtags[1] = [entity |-> 3, tag |-> 2]
  /\ htp.facet_meshtags[2] = [entity |-> 1, tag |-> 1]

====
